---- MODULE Spec2Model ----
(***************************************************************************)
(* Verification model of busbar-sf-agentscript.                            *)
(*                                                                         *)
(*   SpecLex    the indentation pass of the lexer (crates/parser/lexer.rs) *)
(*   SpecLsp    the document store of the language server (crates/lsp)    *)
(*   SpecGraph  the reference-graph builder and its validation queries    *)
(*              (crates/graph)                                             *)
(*   SpecParse  the driver parse_with_errors (src/parser/mod.rs)           *)
(*   SpecDyn    the parts of `instructions: ->` (parser/instructions.rs)   *)
(*   SpecDecl   one declaration of the variables block (variables.rs)      *)
(*   SpecDep    the classification of action targets (dependencies.rs)     *)
(*   SpecWalk   the token walk of parse_instruction_parts_with_depth over  *)
(*              arbitrary token sequences (parser/instructions.rs)         *)
(*                                                                         *)
(* Each specification drives its own variables and leaves the variables of *)
(* the others at their idle values.                                        *)
(***************************************************************************)
EXTENDS Integers, Sequences, FiniteSets, TLC

VARIABLES
    \* ---- lexer ----
    source,        \* the source text, as a sequence of lines
    tokens,        \* output of lexer(): raw tokens with their byte offsets
    lexPc,         \* "start" | "lexed" | "failed" | "done"
    i,             \* index of the next raw token (1-based)
    result,        \* output token kinds of add_indentation_tokens
    indent_stack,  \* the indentation stack, bottom first
    boundary,      \* what the last newline boundary saw and did
    \* ---- language server ----
    documents,     \* Backend.documents: uri -> DocumentState, or NoDoc
    readers,       \* handlers holding a read guard of the documents lock
    writer,        \* handler holding the write guard, or 0
    waitq,         \* handlers queued on the lock, first come first
    hreq,          \* the request each handler serves
    hpc,           \* where each handler is suspended
    hdoc,          \* did_open/did_change: the local `doc`; reads: the state seen
    published,     \* diagnostics sent to the client, in order
    \* ---- reference graph ----
    agent_file,    \* the AgentFile handed to RefGraph::from_ast
    graph,         \* the RefGraph built from it, or NoGraph
    answer,        \* the last query on the graph and what it returned
    gpc,           \* "parsed" | "built" | "panicked" | "answered"
    \* ---- parser driver ----
    lexed,         \* what lex_with_indentation returned to parse_with_errors
    ppc,           \* "lexing" | "returned"
    parser_ran,    \* whether agent_file_parser was run
    parsed,        \* the (result, errors) pair returned, or None
    \* ---- dynamic instructions ----
    dyn_source,    \* the statements under `instructions: ->`
    dyn_tokens,    \* the tokens collect_multiline_tokens hands over, or None
    dyn_parts,     \* the Instructions::Dynamic made of them, or None
    \* ---- variable declarations ----
    decl_tokens,   \* the tokens of one entry of the variables block
    decl,          \* what variable_decl made of them, or None
    \* ---- dependency extraction ----
    dep_targets,   \* the target strings of the action definitions, in order
    all_dependencies,  \* DependencyReport.all_dependencies
    \* ---- token walk of the instruction parts ----
    walk_tokens,   \* the `tokens` slice handed to the walk
    walk_if_depth, \* its `if_depth` argument
    walk_i,        \* the position `i` of the while loop (1-based)
    walk_parts,    \* the `parts` pushed so far
    walk_pc        \* "loop" | "returned"

lexVars == <<source, tokens, lexPc, i, result, indent_stack, boundary>>
lspVars == <<documents, readers, writer, waitq, hreq, hpc, hdoc, published>>

graphVars == <<agent_file, graph, answer, gpc>>

parseVars == <<lexed, ppc, parser_ran, parsed>>

dynVars == <<dyn_source, dyn_tokens, dyn_parts>>

declVars == <<decl_tokens, decl>>

depVars == <<dep_targets, all_dependencies>>
walkVars == <<walk_tokens, walk_if_depth, walk_i, walk_parts, walk_pc>>

vars == <<lexVars, lspVars, graphVars, parseVars, dynVars, declVars, depVars, walkVars>>

\* What the actions of one component leave alone.
lexOthers ==
    <<lspVars, graphVars, parseVars, dynVars, declVars, depVars, walkVars>>
lspOthers ==
    <<lexVars, graphVars, parseVars, dynVars, declVars, depVars, walkVars>>
graphOthers ==
    <<lexVars, lspVars, parseVars, dynVars, declVars, depVars, walkVars>>
parseOthers ==
    <<lexVars, lspVars, graphVars, dynVars, declVars, depVars, walkVars>>
dynOthers ==
    <<lexVars, lspVars, graphVars, parseVars, declVars, depVars, walkVars>>
declOthers ==
    <<lexVars, lspVars, graphVars, parseVars, dynVars, depVars, walkVars>>
depOthers ==
    <<lexVars, lspVars, graphVars, parseVars, dynVars, declVars, walkVars>>
walkOthers ==
    <<lexVars, lspVars, graphVars, parseVars, dynVars, declVars, depVars>>

(***************************************************************************)
(* Bounds                                                                  *)
(***************************************************************************)
MaxLines == 4
MaxIndent == 2
MaxHandlers == 3
MaxTopics == 2
MaxTokens == 4
MaxBlock == 3
MaxEntries == 2
MaxRest == 2
MaxWalk == 4

RECURSIVE SumTo(_, _)
SumTo(f, n) == IF n = 0 THEN 0 ELSE f[n] + SumTo(f, n - 1)

Last(s) == s[Len(s)]
Front(s) == SubSeq(s, 1, Len(s) - 1)
CountOf(s, x) == Cardinality({k \in 1..Len(s) : s[k] = x})

(***************************************************************************)
(* Lexer: source text                                                      *)
(*                                                                         *)
(* A line is `indent` spaces, then one byte of code ("x"), a one-byte      *)
(* comment ("#") or nothing, then its line ending.  A "\r" is accepted by  *)
(* the comment rule (none_of('\n')) and by no other token rule, so a CRLF  *)
(* line ending lexes only when it ends a comment.                          *)
(***************************************************************************)
CodeLines == [kind : {"code"}, indent : 0..MaxIndent, eol : {"lf"}]
CommentLines == [kind : {"comment"}, indent : {0}, eol : {"lf", "crlf"}]
BlankLines == [kind : {"blank"}, indent : {0}, eol : {"lf"}]
BadLines == [kind : {"code"}, indent : {0}, eol : {"crlf"}]
Lines == CodeLines \cup CommentLines \cup BlankLines \cup BadLines

Sources == UNION {[1..n -> Lines] : n \in 1..MaxLines}

ContentLen(line) == IF line.kind = "blank" THEN 0 ELSE 1
EolLen(line) == IF line.eol = "crlf" THEN 2 ELSE 1

\* Bytes the line occupies in the source, line ending included.
ByteLen(line) == line.indent + ContentLen(line) + EolLen(line)

\* Byte offset at which line k really starts.
ByteStart(src, k) == SumTo([j \in 1..Len(src) |-> ByteLen(src[j])], k - 1)

(***************************************************************************)
(* lexer(): the raw tokens of a line, padded_by(horizontal_ws)             *)
(***************************************************************************)
LineTokens(src, k) ==
    LET line == src[k]
        at == ByteStart(src, k) + line.indent
        \* the "\r" of a CRLF ending is the last byte of the comment token
        nl == at + ContentLen(line) + (EolLen(line) - 1)
        word == IF line.kind = "code" THEN <<[tok |-> "Code", start |-> at]>>
                ELSE IF line.kind = "comment"
                     THEN <<[tok |-> "Comment", start |-> at]>>
                     ELSE <<>>
    IN  word \o <<[tok |-> "Newline", start |-> nl]>>

RECURSIVE LexLines(_, _)
LexLines(src, k) ==
    IF k > Len(src) THEN <<>> ELSE LineTokens(src, k) \o LexLines(src, k + 1)

\* A stray "\r" matches no token rule: lexer().parse(..).into_result() is Err.
LexFails(src) == \E k \in 1..Len(src) : src[k].eol = "crlf" /\ src[k].kind # "comment"

lexer(src) == LexLines(src, 1)

(***************************************************************************)
(* add_indentation_tokens                                                  *)
(***************************************************************************)
\* str::lines() strips "\n" and "\r\n"; line.len() is what is left.
LinesLen(line) == line.indent + ContentLen(line)

\* line_indents: (start, indent) per line, start advanced by line.len() + 1.
line_indents(src) ==
    [k \in 1..Len(src) |->
        [start |-> SumTo([j \in 1..Len(src) |-> LinesLen(src[j]) + 1], k - 1),
         indent |-> src[k].indent]]

\* get_indent_at: the indent of the last line whose recorded start is <= pos.
get_indent_at(src, pos) ==
    LET li == line_indents(src)
        hits == {k \in 1..Len(li) : pos >= li[k].start}
    IN  IF hits = {} THEN 0
        ELSE li[CHOOSE k \in hits : \A m \in hits : m <= k].indent

\* The inner while: first index after idx that is neither Comment nor Newline.
RECURSIVE SkipNoise(_, _)
SkipNoise(toks, idx) ==
    IF idx <= Len(toks) /\ toks[idx].tok \in {"Comment", "Newline"}
    THEN SkipNoise(toks, idx + 1)
    ELSE idx

\* Kinds of tokens from..to-1, pushed to result while skipping.
Kinds(toks, from, to) == [k \in 1..(to - from) |-> toks[from + k - 1].tok]

\* The dedent while: pop while len > 1 and top > new_indent.
RECURSIVE PopTo(_, _)
PopTo(stack, new_indent) ==
    IF Len(stack) > 1 /\ Last(stack) > new_indent
    THEN PopTo(Front(stack), new_indent)
    ELSE stack

Repeat(x, n) == [k \in 1..n |-> x]

\* Effect of one newline boundary on the stack.
StackAfter(stack, new_indent) ==
    IF new_indent > Last(stack) THEN Append(stack, new_indent)
    ELSE IF new_indent < Last(stack) THEN PopTo(stack, new_indent)
    ELSE stack

\* One Dedent per column given up instead of one per popped level.
Markers_DedentPerColumn(stack, new_indent) ==
    IF new_indent > Last(stack) THEN <<"Indent">>
    ELSE Repeat("Dedent", Last(stack) - new_indent)

\* Markers emitted at one newline boundary.
Markers(stack, new_indent) ==
    IF new_indent > Last(stack) THEN <<"Indent">>
    ELSE IF new_indent < Last(stack)
         THEN Repeat("Dedent", Len(stack) - Len(PopTo(stack, new_indent)))
         ELSE <<>>

\* The line a byte offset really lies on, and that line's leading width.
TrueLine(src, pos) ==
    CHOOSE k \in 1..Len(src) :
        /\ ByteStart(src, k) <= pos
        /\ pos < ByteStart(src, k) + ByteLen(src[k])
TrueWidth(src, pos) == src[TrueLine(src, pos)].indent

NoBoundary == [seen |-> FALSE]

LexInit ==
    /\ source \in Sources
    /\ tokens = <<>>
    /\ lexPc = "start"
    /\ i = 1
    /\ result = <<>>
    /\ indent_stack = <<0>>
    /\ boundary = NoBoundary

\* lex_with_indentation: lexer().parse(source).into_result()?
Lex ==
    /\ lexPc = "start"
    /\ IF LexFails(source)
       THEN /\ lexPc' = "failed"
            /\ tokens' = <<>>
       ELSE /\ lexPc' = "lexed"
            /\ tokens' = lexer(source)
    /\ UNCHANGED <<source, i, result, indent_stack, boundary>>
    /\ UNCHANGED lexOthers

\* One iteration of the outer while, at a Newline token.
StepNewline ==
    /\ lexPc = "lexed"
    /\ i <= Len(tokens)
    /\ tokens[i].tok = "Newline"
    /\ LET next_idx == SkipNoise(tokens, i + 1)
           copied == <<"Newline">> \o Kinds(tokens, i + 1, next_idx)
       IN  /\ IF next_idx <= Len(tokens)
              THEN LET new_indent == get_indent_at(source, tokens[next_idx].start)
                   IN  /\ indent_stack' = StackAfter(indent_stack, new_indent)
                       /\ result' = result \o copied \o Markers(indent_stack, new_indent)
                       /\ boundary' =
                            [seen |-> TRUE,
                             w |-> TrueWidth(source, tokens[next_idx].start),
                             before |-> indent_stack,
                             after |-> StackAfter(indent_stack, new_indent),
                             emitted |-> Markers(indent_stack, new_indent)]
              ELSE /\ result' = result \o copied
                   /\ UNCHANGED <<indent_stack, boundary>>
           /\ i' = next_idx
    /\ UNCHANGED <<source, tokens, lexPc>>
    /\ UNCHANGED lexOthers

\* One iteration of the outer while, at any other token.
StepOther ==
    /\ lexPc = "lexed"
    /\ i <= Len(tokens)
    /\ tokens[i].tok # "Newline"
    /\ result' = Append(result, tokens[i].tok)
    /\ i' = i + 1
    /\ UNCHANGED <<source, tokens, lexPc, indent_stack, boundary>>
    /\ UNCHANGED lexOthers

\* EmitEofDedents without the trailing while loop: returns with the stack as it is.
EmitEofDedents_NoPop ==
    /\ lexPc = "lexed"
    /\ i > Len(tokens)
    /\ lexPc' = "done"
    /\ UNCHANGED <<source, tokens, i, result, indent_stack, boundary>>
    /\ UNCHANGED lexOthers

\* After the loop: the remaining DEDENTs at EOF, then return.
EmitEofDedents ==
    /\ lexPc = "lexed"
    /\ i > Len(tokens)
    /\ result' = result \o Repeat("Dedent", Len(indent_stack) - 1)
    /\ indent_stack' = <<0>>
    /\ lexPc' = "done"
    /\ UNCHANGED <<source, tokens, i, boundary>>
    /\ UNCHANGED lexOthers

LexNext == Lex \/ StepNewline \/ StepOther \/ EmitEofDedents

\* The lexer variables while another specification runs.
LexIdle ==
    /\ source = <<>>
    /\ tokens = <<>>
    /\ lexPc = "off"
    /\ i = 1
    /\ result = <<>>
    /\ indent_stack = <<0>>
    /\ boundary = NoBoundary

(***************************************************************************)
(* Claims about the lexer                                                  *)
(***************************************************************************)

\* C4: for every source that lexes without error, the token list returned by
\* lex_with_indentation holds exactly as many Dedent tokens as Indent tokens.
C4_IndentDedentBalanced ==
    lexPc = "done" => CountOf(result, "Indent") = CountOf(result, "Dedent")

\* A finished run over a source nested two levels deep.
C4_Witness ==
    /\ lexPc = "done"
    /\ CountOf(result, "Indent") = 2
    /\ CountOf(result, "Dedent") = 2

IsPrefix(s, t) == Len(s) <= Len(t) /\ SubSeq(t, 1, Len(s)) = s

\* C5: at every newline boundary, with w the leading width of the next
\* non-blank, non-comment line and t the top of the stack: w > t pushes w and
\* emits exactly one Indent; w < t pops, one Dedent per pop, until the top is
\* <= w and never pops the initial 0; w = t emits nothing and leaves the stack.
C5_BoundaryFollowsLineWidth ==
    boundary.seen =>
        LET w == boundary.w
            t == Last(boundary.before)
        IN  /\ w > t => /\ boundary.after = Append(boundary.before, w)
                         /\ boundary.emitted = <<"Indent">>
            /\ w < t => /\ IsPrefix(boundary.after, boundary.before)
                         /\ Len(boundary.after) >= 1
                         /\ Last(boundary.after) <= w
                         /\ boundary.before[Len(boundary.after) + 1] > w
                         /\ boundary.emitted =
                              Repeat("Dedent", Len(boundary.before) - Len(boundary.after))
            /\ w = t => /\ boundary.after = boundary.before
                         /\ boundary.emitted = <<>>

\* The significant (code) lines of the source before line k.
CodeLinesBefore(k) == {j \in 1..(k - 1) : source[j].kind = "code"}
\* Line k and the significant line before it have the same leading width.
SameWidthAsPrevious(k) ==
    /\ CodeLinesBefore(k) # {}
    /\ LET p == CHOOSE j \in CodeLinesBefore(k) : \A m \in CodeLinesBefore(k) : m <= j
       IN  source[p].indent = source[k].indent

\* C25: the step of the lexer that crosses from one significant line to the
\* next significant line of the same leading width adds no Indent and no
\* Dedent to the output, also when the first of the two lines was reached by
\* a dedent to a width that is not on the indent stack.
C25_SameWidthNoMarker ==
    [][(/\ lexPc = "lexed"
        /\ i <= Len(tokens)
        /\ tokens[i].tok = "Newline"
        /\ SkipNoise(tokens, i + 1) <= Len(tokens)
        /\ SameWidthAsPrevious(TrueLine(source, tokens[SkipNoise(tokens, i + 1)].start)))
            => /\ CountOf(result', "Indent") = CountOf(result, "Indent")
               /\ CountOf(result', "Dedent") = CountOf(result, "Dedent")]_vars

\* C26: in every prefix of the token list built so far, and so of the list
\* returned, the number of Dedent tokens is at most the number of Indent tokens.
C26_DedentsNeverExceedIndents ==
    \A k \in 1..Len(result) :
        CountOf(SubSeq(result, 1, k), "Dedent") <= CountOf(SubSeq(result, 1, k), "Indent")

\* A finished run that closed its only open level, opened a level again
\* and closed that one at the end of the source.
C26_Witness ==
    /\ lexPc = "done"
    /\ CountOf(result, "Dedent") = 2
    /\ \E k \in 1..Len(result) :
          /\ result[k] = "Dedent"
          /\ CountOf(SubSeq(result, 1, k), "Indent") = 1
          /\ \E m \in (k + 1)..Len(result) : result[m] = "Indent"

(***************************************************************************)
(* Language server: DocumentState                                          *)
(*                                                                         *)
(* A text stands for its parse outcome: "ok" parses cleanly, "ok2" is a    *)
(* second clean text, "recovered" yields an AST together with parse        *)
(* errors, "lexfail" yields no AST and the lexer's errors.                 *)
(***************************************************************************)
Texts == {"ok", "ok2", "recovered", "lexfail"}
Uris == {"u1", "u2"}
None == [none |-> TRUE]
NoDoc == [absent |-> TRUE]
NoReq == [kind |-> "none"]

\* parse_with_structured_errors_all: (Option<AgentFile>, Vec<ParseErrorInfo>)
ParseAst(text) == IF text = "lexfail" THEN None ELSE [ast_of |-> text]
ParseErrors(text) == IF text \in {"lexfail", "recovered"} THEN {[error_in |-> text]} ELSE {}

\* RefGraphBuilder::new().build(a).ok()
GraphOfAst(ast) == [graph_of |-> ast.ast_of]

DocumentState_new(text) ==
    [source |-> text,
     ast |-> ParseAst(text),
     parse_errors |-> ParseErrors(text),
     graph |-> IF ParseAst(text) = None THEN None ELSE GraphOfAst(ParseAst(text))]

\* validate_ast on the AST of a text: every SemanticError carries a span.
validate_ast(ast) ==
    CASE ast.ast_of = "ok2" -> {[issue |-> "semantic", severity |-> "Warning", span |-> TRUE]}
      [] ast.ast_of = "recovered" -> {[issue |-> "semantic", severity |-> "Error", span |-> TRUE]}
      [] OTHER -> {}

\* ValidationError::span: CycleDetected has none.
Issue(kind) == [issue |-> kind, span |-> kind # "CycleDetected"]

\* graph.validate() on the graph of a text: "ok2" has an unresolved
\* reference, a topic cycle and an unreachable topic; "recovered" has an
\* unresolved reference and an unused variable.
GraphValidate(g) ==
    CASE g.graph_of = "ok2" ->
            [errors |-> {Issue("UnresolvedReference"), Issue("CycleDetected")},
             warnings |-> {Issue("UnreachableTopic")}]
      [] g.graph_of = "recovered" ->
            [errors |-> {Issue("UnresolvedReference")},
             warnings |-> {Issue("UnusedVariable")}]
      [] OTHER -> [errors |-> {}, warnings |-> {}]

\* The streams publish_diagnostics merges for a stored document.
Diagnostics(doc) ==
    [source |-> doc.source,
     parse |-> doc.parse_errors,
     semantic |-> IF doc.ast # None
                  THEN {[message |-> e.issue, severity |-> e.severity] :
                            e \in {x \in validate_ast(doc.ast) : x.span}}
                  ELSE {},
     graph |-> IF doc.parse_errors = {} /\ doc.graph # None
               THEN {[message |-> e.issue, severity |-> "Error"] :
                        e \in {x \in GraphValidate(doc.graph).errors : x.span}}
                    \cup {[message |-> e.issue, severity |-> "Warning"] :
                        e \in {x \in GraphValidate(doc.graph).warnings : x.span}}
               ELSE {}]

(***************************************************************************)
(* Language server: requests and the documents lock                        *)
(*                                                                         *)
(* Handlers are async fns: one runs without interruption from one .await   *)
(* to the next, and the only .await points are the lock acquisitions and   *)
(* the client notification.  tokio::sync::RwLock is fair: waiters are      *)
(* served first come first, and a request never overtakes a queued one.    *)
(***************************************************************************)
Handlers == 1..MaxHandlers

WriteRequests ==
    [kind : {"did_open", "did_change"}, uri : {"u1"}, text : Texts]
        \cup [kind : {"did_open"}, uri : {"u2"}, text : {"ok"}]
\* did_change whose content_changes is empty
EmptyChangeRequests == [kind : {"did_change"}, uri : {"u1"}, text : {"<no change>"}]
CloseRequests == [kind : {"did_close"}, uri : {"u1"}]
ReadRequests == [kind : {"read"}, uri : {"u1"}]
Requests == WriteRequests \cup EmptyChangeRequests \cup CloseRequests \cup ReadRequests

WantsWrite(h) == hpc[h] = "wait_write"

\* Hand the lock to the head of the queue for as long as it can be granted.
RECURSIVE Grant(_)
Grant(lk) ==
    IF lk.q = <<>> \/ lk.w # 0 THEN lk
    ELSE LET h == Head(lk.q)
         IN  IF WantsWrite(h)
             THEN IF lk.r = {} THEN [r |-> {}, w |-> h, q |-> Tail(lk.q)] ELSE lk
             ELSE Grant([r |-> lk.r \cup {h}, w |-> 0, q |-> Tail(lk.q)])

Lock == [r |-> readers, w |-> writer, q |-> waitq]

\* A write guard handed out while read guards are still held.
CanWriteNow_IgnoreReaders == writer = 0 /\ waitq = <<>>

\* documents.write().await resolves at once
CanWriteNow == writer = 0 /\ readers = {} /\ waitq = <<>>
\* documents.read().await resolves at once
CanReadNow == writer = 0 /\ waitq = <<>>

SetLock(lk) ==
    /\ readers' = lk.r
    /\ writer' = lk.w
    /\ waitq' = lk.q

LspInit ==
    /\ documents = [u \in Uris |-> NoDoc]
    /\ readers = {}
    /\ writer = 0
    /\ waitq = <<>>
    /\ hreq = [h \in Handlers |-> NoReq]
    /\ hpc = [h \in Handlers |-> "idle"]
    /\ hdoc = [h \in Handlers |-> None]
    /\ published = <<>>

\* publish_diagnostics that returns before notifying the client.
PublishUnderRead_NoSend(h, uri, docs, lk) ==
    /\ hpc' = [hpc EXCEPT ![h] = "done"]
    /\ SetLock(Grant([lk EXCEPT !.r = @ \ {h}]))

\* publish_diagnostics once its read guard is held: look the document up,
\* build the diagnostics and start the client notification; the guard stays
\* held across that .await.  Without an entry it returns and drops the guard.
PublishUnderRead(h, uri, docs, lk) ==
    IF docs[uri] = NoDoc
    THEN /\ hpc' = [hpc EXCEPT ![h] = "done"]
         /\ SetLock(Grant([lk EXCEPT !.r = @ \ {h}]))
    ELSE /\ hpc' = [hpc EXCEPT ![h] = "sending"]
         /\ SetLock(lk)

\* An insert that stores the new text but keeps the old parse of an open entry.
InsertThenPublish_SourceOnly(h, req, doc) ==
    LET docs == [documents EXCEPT ![req.uri] =
                    IF @ = NoDoc THEN doc ELSE [@ EXCEPT !.source = doc.source]]
        released == Grant([r |-> {}, w |-> 0, q |-> waitq])
    IN  /\ documents' = docs
        /\ IF released.w = 0 /\ released.q = <<>>
           THEN PublishUnderRead(h, req.uri, docs, [released EXCEPT !.r = @ \cup {h}])
           ELSE /\ hpc' = [hpc EXCEPT ![h] = "wait_read"]
                /\ SetLock([released EXCEPT !.q = Append(@, h)])

\* self.documents.write().await.insert(uri, doc) with the write guard held,
\* the guard dropped at the end of the statement, then publish_diagnostics
\* up to its first suspension.
InsertThenPublish(h, req, doc) ==
    LET docs == [documents EXCEPT ![req.uri] = doc]
        released == Grant([r |-> {}, w |-> 0, q |-> waitq])
    IN  /\ documents' = docs
        /\ IF released.w = 0 /\ released.q = <<>>
           THEN PublishUnderRead(h, req.uri, docs, [released EXCEPT !.r = @ \cup {h}])
           ELSE /\ hpc' = [hpc EXCEPT ![h] = "wait_read"]
                /\ SetLock([released EXCEPT !.q = Append(@, h)])

\* did_close with the write guard held: remove the entry, drop the guard.
RemoveEntry_ClearsAll(h, req) ==
    /\ documents' = [u \in Uris |-> NoDoc]
    /\ hpc' = [hpc EXCEPT ![h] = "done"]
    /\ SetLock(Grant([r |-> {}, w |-> 0, q |-> waitq]))
RemoveEntry(h, req) ==
    /\ documents' = [documents EXCEPT ![req.uri] = NoDoc]
    /\ hpc' = [hpc EXCEPT ![h] = "done"]
    /\ SetLock(Grant([r |-> {}, w |-> 0, q |-> waitq]))

\* A read handler with its read guard held: answer from the stored state.
Respond(h, req, lk) ==
    /\ hdoc' = [hdoc EXCEPT ![h] = documents[req.uri]]
    /\ hpc' = [hpc EXCEPT ![h] = "done"]
    /\ SetLock(Grant([lk EXCEPT !.r = @ \ {h}]))

\* A lock that serves its newest waiter first.
Enqueue_NewestFirst(h, pc) ==
    /\ hpc' = [hpc EXCEPT ![h] = pc]
    /\ waitq' = <<h>> \o waitq
    /\ UNCHANGED <<readers, writer>>
\* The handler joins the end of the lock's queue of waiters.
Enqueue(h, pc) ==
    /\ hpc' = [hpc EXCEPT ![h] = pc]
    /\ waitq' = Append(waitq, h)
    /\ UNCHANGED <<readers, writer>>

\* The next message is dispatched to handler h, in order of arrival; the
\* handler then runs up to its first suspension.
Dispatch(h, req) ==
    /\ hpc[h] = "idle"
    /\ \A g \in Handlers : g < h => hpc[g] # "idle"
    /\ hreq' = [hreq EXCEPT ![h] = req]

\* let doc = DocumentState::new(text); self.documents.write().await.insert(..)
StartWrite(h, req) ==
    /\ hdoc' = [hdoc EXCEPT ![h] = DocumentState_new(req.text)]
    /\ IF CanWriteNow
       THEN InsertThenPublish(h, req, DocumentState_new(req.text))
       ELSE Enqueue(h, "wait_write") /\ UNCHANGED documents

did_open(h) ==
    \E req \in {r \in WriteRequests : r.kind = "did_open"} :
        /\ Dispatch(h, req)
        /\ StartWrite(h, req)
        /\ UNCHANGED published
        /\ UNCHANGED lspOthers

\* if let Some(change) = params.content_changes.into_iter().next() { .. }
did_change(h) ==
    \E req \in {r \in WriteRequests : r.kind = "did_change"} \cup EmptyChangeRequests :
        /\ Dispatch(h, req)
        /\ IF req \in EmptyChangeRequests
           THEN /\ hpc' = [hpc EXCEPT ![h] = "done"]
                /\ UNCHANGED <<documents, readers, writer, waitq, hdoc>>
           ELSE StartWrite(h, req)
        /\ UNCHANGED published
        /\ UNCHANGED lspOthers

did_close(h) ==
    \E req \in CloseRequests :
        /\ Dispatch(h, req)
        /\ IF CanWriteNow
           THEN RemoveEntry(h, req)
           ELSE Enqueue(h, "wait_write") /\ UNCHANGED documents
        /\ UNCHANGED <<hdoc, published>>
        /\ UNCHANGED lspOthers

\* completion, hover, goto_definition, references, rename, document_symbol,
\* formatting, folding_range, semantic_tokens_full, code_action and the three
\* custom methods: take the read guard, look the document up, answer.
read_request(h) ==
    \E req \in ReadRequests :
        /\ Dispatch(h, req)
        /\ IF CanReadNow
           THEN Respond(h, req, [Lock EXCEPT !.r = @ \cup {h}])
           ELSE Enqueue(h, "wait_read") /\ UNCHANGED hdoc
        /\ UNCHANGED <<documents, published>>
        /\ UNCHANGED lspOthers

\* A queued writer was handed the write guard and runs on.
ResumeWrite(h) ==
    /\ hpc[h] = "wait_write"
    /\ writer = h
    /\ IF hreq[h].kind = "did_close"
       THEN RemoveEntry(h, hreq[h])
       ELSE InsertThenPublish(h, hreq[h], hdoc[h])
    /\ UNCHANGED <<hreq, hdoc, published>>
    /\ UNCHANGED lspOthers

\* A queued reader was handed a read guard and runs on.
ResumeRead(h) ==
    /\ hpc[h] = "wait_read"
    /\ h \in readers
    /\ IF hreq[h].kind = "read"
       THEN Respond(h, hreq[h], Lock)
       ELSE PublishUnderRead(h, hreq[h].uri, documents, Lock) /\ UNCHANGED hdoc
    /\ UNCHANGED <<documents, hreq, published>>
    /\ UNCHANGED lspOthers

\* Diagnostics built from the handler's own text instead of the stored entry.
publish_diagnostics_FromOwnText(h) == Diagnostics(hdoc[h])
\* publish_diagnostics: the diagnostics of the entry found under the read guard
publish_diagnostics(h) == Diagnostics(documents[hreq[h].uri])

\* client.publish_diagnostics(..).await completes; publish_diagnostics
\* returns and its read guard is dropped.
SendDone(h) ==
    /\ hpc[h] = "sending"
    /\ published' = Append(published,
                           [uri |-> hreq[h].uri, by |-> h,
                            diagnostics |-> publish_diagnostics(h)])
    /\ hpc' = [hpc EXCEPT ![h] = "done"]
    /\ SetLock(Grant([Lock EXCEPT !.r = @ \ {h}]))
    /\ UNCHANGED <<documents, hreq, hdoc>>
    /\ UNCHANGED lspOthers

LspNext ==
    \E h \in Handlers :
        \/ did_open(h)
        \/ did_change(h)
        \/ did_close(h)
        \/ read_request(h)
        \/ ResumeWrite(h)
        \/ ResumeRead(h)
        \/ SendDone(h)


(***************************************************************************)
(* Claims about the language server                                        *)
(***************************************************************************)
IsWrite(h) == hreq[h] \in WriteRequests
PublishedBy(h) == \E k \in 1..Len(published) : published[k].by = h /\ published[k].uri = hreq[h].uri

\* C1 as stated: a did_open or did_change holds the documents write lock from
\* the start of its parse until it has replaced the entry, so a handler that
\* has parsed its text and not yet stored it is the holder of the write guard.
C1_ParsedUnderWriteLock ==
    \A h \in Handlers :
        (IsWrite(h) /\ hdoc[h] # None /\ hpc[h] = "wait_write") => writer = h

\* C1 amended: the new DocumentState is built before the write lock is
\* requested; every change of the documents map is one insert or remove made
\* by a handler that has the write guard, with no read guard outstanding, and
\* an inserted entry is the complete state that handler built from its text.
C1_ReplaceUnderWriteLock ==
    [][documents' # documents =>
        /\ readers = {}
        /\ \A g \in Handlers : hpc[g] # "sending"
        /\ \E h \in Handlers :
              /\ hpc'[h] # hpc[h]
              /\ writer \in {0, h}
              /\ \A u \in Uris : documents'[u] # documents[u] => u = hreq'[h].uri
              /\ \/ hreq'[h] \in CloseRequests /\ documents'[hreq'[h].uri] = NoDoc
                 \/ /\ hreq'[h] \in WriteRequests
                    /\ documents'[hreq'[h].uri] = hdoc'[h]
                    /\ hdoc'[h].source = hreq'[h].text]_vars

\* A did_change that had to queue for the lock has replaced the entry made
\* by an earlier did_open with another text.
C1_Witness ==
    \E h \in Handlers :
        /\ h > 1
        /\ hreq[1].kind = "did_open" /\ hreq[1].uri = "u1"
        /\ hreq[h].kind = "did_change" /\ IsWrite(h)
        /\ hreq[h].text # hreq[1].text
        /\ hpc[1] = "done"
        /\ hpc[h] = "sending"
        /\ documents["u1"].source = hreq[h].text

\* All four fields of a document state come from the one text in `source`.
FromOneText(doc) ==
    /\ doc.ast = ParseAst(doc.source)
    /\ doc.parse_errors = ParseErrors(doc.source)
    /\ doc.graph = IF doc.ast = None THEN None ELSE GraphOfAst(doc.ast)

\* C2: under any interleaving of writes and reads of one URI, the state a read
\* handler answers from has source, AST, parse errors and graph produced from
\* the same text by one write (one of the writes received for that URI).
C2_ReadSeesOneWrite ==
    \A h \in Handlers :
        (hreq[h] \in ReadRequests /\ hpc[h] = "done" /\ hdoc[h] # NoDoc) =>
            /\ FromOneText(hdoc[h])
            /\ \E g \in Handlers :
                  /\ IsWrite(g)
                  /\ hreq[g].uri = hreq[h].uri
                  /\ hreq[g].text = hdoc[h].source

\* A read answered between an open and a change of the same URI with another
\* text: it saw the first state although the second was already built.
C2_Witness ==
    \E h, g \in Handlers :
        /\ hreq[1].kind = "did_open" /\ hreq[1].uri = "u1"
        /\ hreq[h] \in ReadRequests /\ hpc[h] = "done"
        /\ hdoc[h] # NoDoc
        /\ hdoc[h].source = hreq[1].text
        /\ IsWrite(g) /\ hreq[g].uri = "u1" /\ hreq[g].text # hreq[1].text
        /\ documents["u1"].source = hreq[g].text

\* C3 as stated: every did_open, did_change and did_close that has completed
\* for a URI has been followed by a diagnostics publication for that URI.
C3_EveryWritePublishes ==
    \A h \in Handlers :
        (hpc[h] = "done" /\ hreq[h].kind \in {"did_open", "did_change", "did_close"})
            => PublishedBy(h)

\* C3 amended: a completed did_open, or did_change with a content change, has
\* published diagnostics for its URI unless a later did_close of that URI
\* removed the entry before publish_diagnostics got its read guard; did_close
\* and a did_change without content changes publish nothing.
C3_WritePublishesUnlessClosed ==
    \A h \in Handlers :
        hpc[h] = "done" =>
            /\ IsWrite(h) =>
                  \/ PublishedBy(h)
                  \/ \E g \in Handlers :
                        /\ g > h
                        /\ hreq[g] \in CloseRequests
                        /\ hreq[g].uri = hreq[h].uri
                        /\ hpc[g] = "done"
            /\ ~IsWrite(h) => ~PublishedBy(h)

\* All three outcomes at once: a did_open that published, a did_change whose
\* publication was skipped because the entry was closed, and that did_close.
C3_Witness ==
    /\ hreq[1].kind = "did_open" /\ hpc[1] = "done" /\ PublishedBy(1)
    /\ hreq[2].kind = "did_change" /\ IsWrite(2) /\ hpc[2] = "done" /\ ~PublishedBy(2)
    /\ hreq[3].kind = "did_close" /\ hpc[3] = "done"

\* A did_close of uri u has completed and no did_open or did_change for u
\* has arrived after it (handlers are numbered in order of arrival).
ClosedAndNotRewritten(u) ==
    \E c \in Handlers :
        /\ hreq[c] \in CloseRequests /\ hreq[c].uri = u /\ hpc[c] = "done"
        /\ \A w \in Handlers :
              (w > c /\ hpc[w] # "idle" /\ hreq[w].uri = u) => ~IsWrite(w)

\* C16: the step in which a did_close(uri) completes sets the entry of uri
\* to absent and changes no other entry of the documents map; and a read
\* request for uri answered once that did_close has completed (and before the
\* uri is written again) finds no entry and returns no result.
C16_CloseRemovesOnlyItsEntry ==
    [][\A h \in Handlers :
          /\ (hreq'[h] \in CloseRequests /\ hpc[h] # "done" /\ hpc'[h] = "done") =>
                documents' = [documents EXCEPT ![hreq'[h].uri] = NoDoc]
          /\ (hreq'[h] \in ReadRequests /\ hpc[h] # "done" /\ hpc'[h] = "done"
                /\ ClosedAndNotRewritten(hreq'[h].uri)) =>
                hdoc'[h] = NoDoc]_vars

\* u1 was opened, then closed, and a read of u1 that arrived after the
\* did_close found no entry.
C16_Witness ==
    /\ hreq[1] \in WriteRequests /\ hreq[1].uri = "u1" /\ hpc[1] = "done"
    /\ hreq[2] \in CloseRequests /\ hpc[2] = "done"
    /\ hreq[3] \in ReadRequests /\ hpc[3] = "done" /\ hdoc[3] = NoDoc
    /\ documents["u1"] = NoDoc

\* C15: whenever the stored state of a published document holds an AST or
\* a graph, the published diagnostics hold every semantic-validation issue
\* and every graph-validation error and warning, with or without parse
\* errors.
C15_PostParseIssuesPublished ==
    \A k \in 1..Len(published) :
        LET d == published[k].diagnostics
            doc == DocumentState_new(d.source)
        IN  /\ doc.ast # None =>
                \A e \in validate_ast(doc.ast) :
                    [message |-> e.issue, severity |-> e.severity] \in d.semantic
            /\ doc.graph # None =>
                /\ \A e \in GraphValidate(doc.graph).errors :
                        [message |-> e.issue, severity |-> "Error"] \in d.graph
                /\ \A e \in GraphValidate(doc.graph).warnings :
                        [message |-> e.issue, severity |-> "Warning"] \in d.graph

\* Handler h serves a did_change that carries a content change.
ChangeWithText(h) == hpc[h] # "idle" /\ hreq[h].kind = "did_change" /\ IsWrite(h)
\* No did_open, did_change or did_close of h's uri has arrived after h.
LastWriterOfUri(h) ==
    \A k \in Handlers :
        (k > h /\ hpc[k] # "idle") =>
            ~(hreq[k] \in WriteRequests \cup CloseRequests /\ hreq[k].uri = hreq[h].uri)

\* C22: when two did_change notifications for one URI were received one after
\* the other and both handlers have finished (and nothing later wrote or
\* closed that URI), the stored document state is the one built from the
\* later notification's text, under every interleaving of the handlers.
C22_LaterChangeWins ==
    \A g, h \in Handlers :
        (/\ g < h
         /\ ChangeWithText(g) /\ ChangeWithText(h)
         /\ hreq[g].uri = hreq[h].uri
         /\ hpc[g] = "done" /\ hpc[h] = "done"
         /\ LastWriterOfUri(h))
            => documents[hreq[h].uri] = DocumentState_new(hreq[h].text)

\* Two did_change notifications with different texts both queued behind a
\* did_open; the earlier one's publication completed last, and the stored
\* state is the later one's.
C22_Witness ==
    /\ hreq[1].kind = "did_open" /\ hreq[1].uri = "u1"
    /\ ChangeWithText(2) /\ ChangeWithText(3)
    /\ hreq[2].text # hreq[3].text
    /\ hpc[2] = "done" /\ hpc[3] = "done"
    /\ Len(published) = 3 /\ published[3].by = 2
    /\ documents["u1"].source = hreq[3].text

\* Every did_open and did_change with content received for uri u has finished.
WritesSettled(u) ==
    \A h \in Handlers :
        (hpc[h] # "idle" /\ IsWrite(h) /\ hreq[h].uri = u) => hpc[h] = "done"
PublishedFor(u) == SelectSeq(published, LAMBDA p : p.uri = u)

\* C23: once every write received for an open URI has finished and no further
\* write arrives, diagnostics have been published for that URI and the last
\* of them were computed from the document state that is finally stored.
C23_LastDiagnosticsAreCurrent ==
    \A u \in Uris :
        (documents[u] # NoDoc /\ WritesSettled(u)) =>
            /\ PublishedFor(u) # <<>>
            /\ PublishedFor(u)[Len(PublishedFor(u))].diagnostics = Diagnostics(documents[u])

\* Three writes of u1 with three texts; the publications of the second and
\* third overlapped and the second's completed last.
C23_Witness ==
    /\ WritesSettled("u1")
    /\ \A h \in Handlers : hpc[h] = "done" /\ IsWrite(h) /\ hreq[h].uri = "u1"
    /\ hreq[1].text # hreq[2].text /\ hreq[2].text # hreq[3].text
    /\ hreq[1].text # hreq[3].text
    /\ Len(PublishedFor("u1")) = 3
    /\ PublishedFor("u1")[3].by = 2
    /\ PublishedFor("u1")[3].diagnostics = Diagnostics(documents["u1"])
    /\ documents["u1"].source = hreq[3].text

\* Uri u was stored by a did_open and no did_close of u that arrived after
\* that did_open has completed.
OpenedAndNotClosed(u) ==
    \E o \in Handlers :
        /\ hpc[o] \notin {"idle", "wait_write"}
        /\ hreq[o].kind = "did_open" /\ hreq[o].uri = u
        /\ \A c \in Handlers :
              (c > o /\ hpc[c] = "done" /\ hreq[c].uri = u) => hreq[c] \notin CloseRequests

\* C24: the documents map holds an entry only for a URI that a did_open
\* stored and that has not been closed since; a did_change for a URI that is
\* not open, or one overlapping a did_close of that URI, leaves no entry.
C24_EntriesOnlyForOpenUris ==
    \A u \in Uris : documents[u] # NoDoc => OpenedAndNotClosed(u)

(***************************************************************************)
(* Reference graph: the AST the builder reads                              *)
(*                                                                         *)
(* Only the parts of AgentFile that RefGraphBuilder visits are kept.  An   *)
(* expression is a Reference, a literal, or a composite (BinOp, UnaryOp,   *)
(* Ternary, List, Object, Property, Index) with its operands in the order  *)
(* add_expression_edges visits them.                                       *)
(***************************************************************************)
NoStart == [absent |-> TRUE]

Ref(ns, path) == [namespace |-> ns, path |-> path]
ERef(ns, path) == [e |-> "Reference", reference |-> Ref(ns, path)]
ELit == [e |-> "Literal"]
ENode(operands) == [e |-> "Composite", operands |-> operands]

Text == [p |-> "Text"]
Interpolation(expr) == [p |-> "Interpolation", expr |-> expr]
Conditional(c, t, el) ==
    [p |-> "Conditional", condition |-> c, then_parts |-> t, else_parts |-> el]

SimpleInstructions == [kind |-> "Simple"]
Dynamic(parts) == [kind |-> "Dynamic", parts |-> parts]

Target(kind, ref) == [kind |-> kind, reference |-> ref]
Escalate == [kind |-> "Escalate"]
SetVariables == [kind |-> "SetVariables"]

RA(name, target, withs, sets) ==
    [name |-> name, target |-> target, with_clauses |-> withs, set_clauses |-> sets]

Body(actions, instructions, ras) ==
    [actions |-> actions, instructions |-> instructions, reasoning_actions |-> ras]

TopicBlock(name, body) == [name |-> name] @@ body

\* Reference::full_path
full_path(ref) == <<"@", ref.namespace>> \o ref.path

(***************************************************************************)
(* Reference graph: RefGraphBuilder                                        *)
(*                                                                         *)
(* Node indices are positions in `nodes`.  A node's span is the place of   *)
(* its definition in the source, distinct for distinct definitions.        *)
(***************************************************************************)
RefGraphBuilder_new ==
    [nodes |-> <<>>,
     edges |-> <<>>,
     topics |-> <<>>,
     action_defs |-> <<>>,
     reasoning_actions |-> <<>>,
     variables |-> <<>>,
     start_agent |-> 0,
     unresolved_references |-> <<>>,
     panicked |-> FALSE]

\* HashMap::insert and HashMap::get on maps kept as sequences of entries.
Keys(m) == {m[k].key : k \in 1..Len(m)}
Get(m, key) == (CHOOSE k \in 1..Len(m) : m[k].key = key /\ \A j \in (k + 1)..Len(m) : m[j].key # key)
MapGet(m, key) == m[Get(m, key)].idx
Insert(m, key, idx) ==
    IF key \in Keys(m)
    THEN [k \in 1..Len(m) |-> IF m[k].key = key THEN [key |-> key, idx |-> idx] ELSE m[k]]
    ELSE Append(m, [key |-> key, idx |-> idx])

\* graph.add_node
add_node(b, node) == [b EXCEPT !.nodes = Append(@, node @@ [span |-> Len(b.nodes) + 1])]
NewIdx(b) == Len(b.nodes) + 1

\* graph.add_edge
add_edge(b, from, to, kind) ==
    [b EXCEPT !.edges = Append(@, [from |-> from, to |-> to, kind |-> kind])]

Unresolved(b, ref, ns, context) ==
    [b EXCEPT !.unresolved_references =
        Append(@, [error |-> "UnresolvedReference", reference |-> full_path(ref),
                   namespace |-> ns, context |-> context])]

\* path.join(".") as a key: identifiers contain no ".", so the joined string
\* of a longer path equals no variable name.
JoinPath(path) == IF Len(path) = 1 THEN path[1] ELSE "<dotted>"

RECURSIVE AddVariables(_, _, _)
AddVariables(b, decls, k) ==
    IF k > Len(decls) THEN b
    ELSE AddVariables(
            [add_node(b, [type |-> "Variable", name |-> decls[k].name,
                          mutable |-> decls[k].kind = "Mutable"])
                EXCEPT !.variables = Insert(@, decls[k].name, NewIdx(b))],
            decls, k + 1)

add_variables(b, ast) == AddVariables(b, ast.variables, 1)

RECURSIVE AddActionDefs(_, _, _, _)
AddActionDefs(b, topic, actions, k) ==
    IF k > Len(actions) THEN b
    ELSE AddActionDefs(
            [add_node(b, [type |-> "ActionDef", name |-> actions[k], topic |-> topic])
                EXCEPT !.action_defs = Insert(@, <<topic, actions[k]>>, NewIdx(b))],
            topic, actions, k + 1)

\* extract_target
extract_target(target) ==
    CASE target.kind \in {"Action", "TransitionTo", "TopicDelegate"} ->
            full_path(target.reference)
      [] target.kind = "Escalate" -> <<"@", "utils", "escalate">>
      [] target.kind = "SetVariables" -> <<"@", "utils", "setVariables">>

RECURSIVE AddReasoningActions(_, _, _, _)
AddReasoningActions(b, topic, ras, k) ==
    IF k > Len(ras) THEN b
    ELSE AddReasoningActions(
            [add_node(b, [type |-> "ReasoningAction", name |-> ras[k].name,
                          topic |-> topic, target |-> extract_target(ras[k].target)])
                EXCEPT !.reasoning_actions = Insert(@, <<topic, ras[k].name>>, NewIdx(b))],
            topic, ras, k + 1)

add_start_agent(b, ast) ==
    IF ast.start_agent = NoStart THEN b
    ELSE LET b1 == [add_node(b, [type |-> "StartAgent"]) EXCEPT !.start_agent = NewIdx(b)]
             b2 == AddActionDefs(b1, "start_agent", ast.start_agent.actions, 1)
         IN  AddReasoningActions(b2, "start_agent", ast.start_agent.reasoning_actions, 1)

RECURSIVE AddTopics(_, _, _)
AddTopics(b, topics, k) ==
    IF k > Len(topics) THEN b
    ELSE LET t == topics[k]
             b1 == [add_node(b, [type |-> "Topic", name |-> t.name])
                       EXCEPT !.topics = Insert(@, t.name, NewIdx(b))]
             b2 == AddActionDefs(b1, t.name, t.actions, 1)
             b3 == AddReasoningActions(b2, t.name, t.reasoning_actions, 1)
         IN  AddTopics(b3, topics, k + 1)

add_topics(b, ast) == AddTopics(b, ast.topics, 1)

\* extract_topic_from_ref / extract_action_name: Some(path[0]) or None
extract_topic_from_ref(ref) == ref.namespace = "topic" /\ ref.path # <<>>
extract_action_name(ref) == ref.namespace = "actions" /\ ref.path # <<>>

\* The topic a node belongs to, as add_expression_edges derives it.
TopicOfNode(node) ==
    CASE node.type = "Topic" -> node.name
      [] node.type = "StartAgent" -> "start_agent"
      [] node.type = "ReasoningAction" -> node.topic
      [] OTHER -> "<none>"

RECURSIVE add_expression_edges(_, _, _)
RECURSIVE AddOperandEdges(_, _, _, _)
add_expression_edges(b, from_idx, expr) ==
    CASE expr.e = "Reference" ->
            LET ref == expr.reference IN
            IF ref.namespace = "variables"
            THEN IF JoinPath(ref.path) \in Keys(b.variables)
                 THEN add_edge(b, from_idx, MapGet(b.variables, JoinPath(ref.path)), "Reads")
                 ELSE Unresolved(b, ref, "variables", <<"variable read">>)
            ELSE IF ref.namespace = "actions"
            THEN LET topic_name == TopicOfNode(b.nodes[from_idx]) IN
                 IF topic_name # "<none>" /\ extract_action_name(ref)
                 THEN IF <<topic_name, ref.path[1]>> \in Keys(b.action_defs)
                      THEN add_edge(b, from_idx,
                                    MapGet(b.action_defs, <<topic_name, ref.path[1]>>),
                                    "Invokes")
                      ELSE Unresolved(b, ref, "actions", <<"topic", topic_name>>)
                 ELSE b
            ELSE b
      [] expr.e = "Composite" -> AddOperandEdges(b, from_idx, expr.operands, 1)
      [] OTHER -> b
AddOperandEdges(b, from_idx, operands, k) ==
    IF k > Len(operands) THEN b
    ELSE AddOperandEdges(add_expression_edges(b, from_idx, operands[k]),
                         from_idx, operands, k + 1)

\* add_with_value_edges: WithValue::Expr is the only variant
add_with_value_edges(b, from_idx, value) == add_expression_edges(b, from_idx, value)

RECURSIVE scan_instruction_part(_, _, _)
RECURSIVE ScanParts(_, _, _, _)
scan_instruction_part(b, node_idx, part) ==
    CASE part.p = "Text" -> b
      [] part.p = "Interpolation" -> add_expression_edges(b, node_idx, part.expr)
      [] part.p = "Conditional" ->
            LET b1 == add_expression_edges(b, node_idx, part.condition)
                b2 == ScanParts(b1, node_idx, part.then_parts, 1)
            IN  IF part.else_parts = None THEN b2
                ELSE ScanParts(b2, node_idx, part.else_parts.parts, 1)
ScanParts(b, node_idx, parts, k) ==
    IF k > Len(parts) THEN b
    ELSE ScanParts(scan_instruction_part(b, node_idx, parts[k]), node_idx, parts, k + 1)

scan_instructions(b, node_idx, instructions) ==
    IF instructions.kind = "Dynamic"
    THEN ScanParts(b, node_idx, instructions.parts, 1)
    ELSE b

RECURSIVE AddStartAgentTargets(_, _, _)
AddStartAgentTargets(b, ras, k) ==
    IF k > Len(ras) THEN b
    ELSE LET target == ras[k].target
             b1 == IF /\ target.kind \in {"TransitionTo", "TopicDelegate"}
                      /\ extract_topic_from_ref(target.reference)
                   THEN IF target.reference.path[1] \in Keys(b.topics)
                        THEN add_edge(b, b.start_agent,
                                      MapGet(b.topics, target.reference.path[1]), "Routes")
                        ELSE Unresolved(b, target.reference, "topic", <<"start_agent">>)
                   ELSE b
         IN  AddStartAgentTargets(b1, ras, k + 1)

add_start_agent_edges(b, ast) ==
    IF b.start_agent = 0 \/ ast.start_agent = NoStart THEN b
    ELSE AddStartAgentTargets(
            scan_instructions(b, b.start_agent, ast.start_agent.instructions),
            ast.start_agent.reasoning_actions, 1)

RECURSIVE AddSetClauses(_, _, _, _, _)
AddSetClauses(b, topic_name, reasoning_idx, sets, k) ==
    IF k > Len(sets) THEN b
    ELSE LET target_ref == sets[k]
             b1 == IF target_ref.namespace = "variables"
                   THEN IF JoinPath(target_ref.path) \in Keys(b.variables)
                        THEN add_edge(b, reasoning_idx,
                                      MapGet(b.variables, JoinPath(target_ref.path)), "Writes")
                        ELSE Unresolved(b, target_ref, "variables",
                                        <<"set clause in topic", topic_name>>)
                   ELSE b
         IN  AddSetClauses(b1, topic_name, reasoning_idx, sets, k + 1)

\* The edge or the unresolved entry of one reasoning action's target.
TargetEdge_FromReasoningAction(b, topic_name, topic_idx, reasoning_idx, target) ==
    CASE target.kind = "Action" ->
            IF extract_action_name(target.reference)
            THEN IF <<topic_name, target.reference.path[1]>> \in Keys(b.action_defs)
                 THEN add_edge(b, reasoning_idx,
                               MapGet(b.action_defs, <<topic_name, target.reference.path[1]>>),
                               "Invokes")
                 ELSE Unresolved(b, target.reference, "actions", <<"topic", topic_name>>)
            ELSE b
      [] target.kind \in {"TransitionTo", "TopicDelegate"} ->
            IF extract_topic_from_ref(target.reference)
            THEN IF target.reference.path[1] \in Keys(b.topics)
                 THEN add_edge(b, reasoning_idx, MapGet(b.topics, target.reference.path[1]),
                               IF target.kind = "TransitionTo"
                               THEN "TransitionsTo" ELSE "Delegates")
                 ELSE Unresolved(b, target.reference, "topic", <<"topic", topic_name>>)
            ELSE b
      [] OTHER -> b
TargetEdge(b, topic_name, topic_idx, reasoning_idx, target) ==
    CASE target.kind = "Action" ->
            IF extract_action_name(target.reference)
            THEN IF <<topic_name, target.reference.path[1]>> \in Keys(b.action_defs)
                 THEN add_edge(b, reasoning_idx,
                               MapGet(b.action_defs, <<topic_name, target.reference.path[1]>>),
                               "Invokes")
                 ELSE Unresolved(b, target.reference, "actions", <<"topic", topic_name>>)
            ELSE b
      [] target.kind \in {"TransitionTo", "TopicDelegate"} ->
            IF extract_topic_from_ref(target.reference)
            THEN IF target.reference.path[1] \in Keys(b.topics)
                 THEN add_edge(b, topic_idx, MapGet(b.topics, target.reference.path[1]),
                               IF target.kind = "TransitionTo"
                               THEN "TransitionsTo" ELSE "Delegates")
                 ELSE Unresolved(b, target.reference, "topic", <<"topic", topic_name>>)
            ELSE b
      [] OTHER -> b

RECURSIVE add_reasoning_action_edges(_, _, _, _, _)
add_reasoning_action_edges(b, topic_name, topic_idx, ras, k) ==
    IF k > Len(ras) \/ b.panicked THEN b
    ELSE IF <<topic_name, ras[k].name>> \notin Keys(b.reasoning_actions)
    THEN [b EXCEPT !.panicked = TRUE]
    ELSE LET reasoning_idx == MapGet(b.reasoning_actions, <<topic_name, ras[k].name>>)
             b1 == TargetEdge(b, topic_name, topic_idx, reasoning_idx, ras[k].target)
             b2 == AddOperandEdges(b1, reasoning_idx, ras[k].with_clauses, 1)
             b3 == AddSetClauses(b2, topic_name, reasoning_idx, ras[k].set_clauses, 1)
         IN  add_reasoning_action_edges(b3, topic_name, topic_idx, ras, k + 1)

RECURSIVE AddTopicEdges(_, _, _)
AddTopicEdges(b, topics, k) ==
    IF k > Len(topics) \/ b.panicked THEN b
    ELSE IF topics[k].name \notin Keys(b.topics)
    THEN [b EXCEPT !.panicked = TRUE]
    ELSE LET topic_idx == MapGet(b.topics, topics[k].name)
             b1 == scan_instructions(b, topic_idx, topics[k].instructions)
             b2 == add_reasoning_action_edges(b1, topics[k].name, topic_idx,
                                              topics[k].reasoning_actions, 1)
         IN  AddTopicEdges(b2, topics, k + 1)

add_topic_edges(b, ast) == AddTopicEdges(b, ast.topics, 1)

\* RefGraphBuilder::build.  Every phase returns Ok(()), so the result is
\* Ok(RefGraph) unless an index lookup panicked.
build(ast) ==
    LET b1 == add_variables(RefGraphBuilder_new, ast)
        b2 == add_start_agent(b1, ast)
        b3 == add_topics(b2, ast)
        b4 == add_start_agent_edges(b3, ast)
    IN  add_topic_edges(b4, ast)

(***************************************************************************)
(* Reference graph: validation queries                                     *)
(***************************************************************************)
NodeIds(g) == 1..Len(g.nodes)
Successors(g, n) == {g.edges[k].to : k \in {j \in 1..Len(g.edges) : g.edges[j].from = n}}

\* find_reachable_from: depth-first search over outgoing edges.
RECURSIVE Visit(_, _, _)
Visit(g, reachable, stack) ==
    IF stack = {} THEN reachable
    ELSE LET idx == CHOOSE n \in stack : TRUE IN
         IF idx \in reachable
         THEN Visit(g, reachable, stack \ {idx})
         ELSE Visit(g, reachable \cup {idx}, (stack \ {idx}) \cup Successors(g, idx))

find_reachable_from(g, start) == Visit(g, {}, {start})

\* Nodes reachable from n by at least one edge.
ReachablePlus(g, n) == Visit(g, {}, Successors(g, n))

\* petgraph::algo::is_cyclic_directed
is_cyclic_directed(g) == \E n \in NodeIds(g) : n \in ReachablePlus(g, n)

\* petgraph::algo::tarjan_scc: the strongly connected components.
tarjan_scc(g) ==
    {{m \in NodeIds(g) : m = n \/ (m \in ReachablePlus(g, n) /\ n \in ReachablePlus(g, m))}
        : n \in NodeIds(g)}

\* The Topic names of a component; their order within the component is the
\* order Tarjan's algorithm left them in, which no caller relies on.
CyclePath(g, scc) == {g.nodes[n].name : n \in {m \in scc : g.nodes[m].type = "Topic"}}

find_cycles_AnyComponent(g) ==
    IF ~is_cyclic_directed(g) THEN {}
    ELSE {[error |-> "CycleDetected", path |-> CyclePath(g, scc)] :
            scc \in {s \in tarjan_scc(g) : Cardinality(s) >= 1 /\ CyclePath(g, s) # {}}}
find_cycles(g) ==
    IF ~is_cyclic_directed(g) THEN {}
    ELSE {[error |-> "CycleDetected", path |-> CyclePath(g, scc)] :
            scc \in {s \in tarjan_scc(g) : Cardinality(s) > 1 /\ CyclePath(g, s) # {}}}

find_unreachable_topics(g) ==
    IF g.start_agent = 0 THEN {}
    ELSE LET reachable == find_reachable_from(g, g.start_agent) IN
         {[error |-> "UnreachableTopic", name |-> g.topics[k].key,
           span |-> g.nodes[g.topics[k].idx].span] :
            k \in {j \in 1..Len(g.topics) :
                     /\ g.topics[j].idx \notin reachable
                     /\ g.nodes[g.topics[j].idx].type = "Topic"}}

HasIncoming(g, idx, kind) ==
    \E k \in 1..Len(g.edges) : g.edges[k].to = idx /\ g.edges[k].kind = kind

find_unused_actions(g) ==
    {[error |-> "UnusedActionDef", name |-> g.action_defs[k].key[2],
      topic |-> g.action_defs[k].key[1], span |-> g.nodes[g.action_defs[k].idx].span] :
        k \in {j \in 1..Len(g.action_defs) :
                 /\ ~HasIncoming(g, g.action_defs[j].idx, "Invokes")
                 /\ g.nodes[g.action_defs[j].idx].type = "ActionDef"}}

find_unused_variables(g) ==
    {[error |-> "UnusedVariable", name |-> g.variables[k].key,
      span |-> g.nodes[g.variables[k].idx].span] :
        k \in {j \in 1..Len(g.variables) :
                 /\ ~HasIncoming(g, g.variables[j].idx, "Reads")
                 /\ g.nodes[g.variables[j].idx].type = "Variable"}}

\* Vec from an iterator whose order the callers do not rely on.
RECURSIVE Collect(_)
Collect(set) ==
    IF set = {} THEN <<>>
    ELSE LET x == CHOOSE y \in set : TRUE IN <<x>> \o Collect(set \ {x})

validate_CyclesOnly(g) ==
    [errors |-> Collect(find_cycles(g)),
     warnings |-> Collect(find_unreachable_topics(g)) \o Collect(find_unused_actions(g))
                    \o Collect(find_unused_variables(g))]
validate(g) ==
    [errors |-> g.unresolved_references \o Collect(find_cycles(g)),
     warnings |-> Collect(find_unreachable_topics(g)) \o Collect(find_unused_actions(g))
                    \o Collect(find_unused_variables(g))]

\* ValidationResult::is_ok
is_ok_NoIssues(validation) == validation.errors = <<>> /\ validation.warnings = <<>>
is_ok(validation) == validation.errors = <<>>

(***************************************************************************)
(* Reference graph: queries                                                *)
(***************************************************************************)
IndexValues(m) == {m[k].idx : k \in 1..Len(m)}

\* petgraph::algo::toposort followed by the filter to `nodes`: the orders of
\* `nodes` that some topological order of the whole graph induces, which are
\* the orders of `nodes` in which no node reaches an earlier one.
SortedFiltered(g, nodes) ==
    {o \in [1..Cardinality(nodes) -> nodes] :
        /\ \A j, k \in DOMAIN o : o[j] = o[k] => j = k
        /\ \A j, k \in DOMAIN o : j < k => o[j] \notin ReachablePlus(g, o[k])}

\* The values topic_execution_order can return: None on a cycle (toposort
\* fails), else Some(order).
topic_execution_order(g) ==
    IF is_cyclic_directed(g) THEN {None}
    ELSE {[order |-> o] : o \in SortedFiltered(g, IndexValues(g.topics))}

CountNodes(g, type) == Cardinality({n \in NodeIds(g) : g.nodes[n].type = type})
CountEdges(g, kinds) == Cardinality({k \in 1..Len(g.edges) : g.edges[k].kind \in kinds})

\* RefGraph::stats: Routes, Chains and Escalates edges fall in the `_ => {}` arm.
stats(g) ==
    [topics |-> CountNodes(g, "Topic"),
     action_defs |-> CountNodes(g, "ActionDef"),
     reasoning_actions |-> CountNodes(g, "ReasoningAction"),
     variables |-> CountNodes(g, "Variable"),
     connections |-> CountNodes(g, "Connection"),
     has_start_agent |-> CountNodes(g, "StartAgent") > 0,
     transitions |-> CountEdges(g, {"TransitionsTo", "Delegates"}),
     invocations |-> CountEdges(g, {"Invokes"}),
     reads |-> CountEdges(g, {"Reads"}),
     writes |-> CountEdges(g, {"Writes"})]

\* GraphStats::total_edges
total_edges(st) == st.transitions + st.invocations + st.reads + st.writes

(***************************************************************************)
(* Reference graph: the ASTs the builder is run on                         *)
(*                                                                         *)
(* Two families of parser output.  TopoAsts vary the topic structure:      *)
(* up to MaxTopics topic blocks (names may repeat, as the parser pushes    *)
(* every block) with transitions and delegations between them and from     *)
(* start_agent.  RefAsts vary what one start_agent and one topic refer to: *)
(* action targets, with and set clauses, instruction interpolations.       *)
(***************************************************************************)
TopicNames == {"a", "b"}

VarDecl(name) == [name |-> name, kind |-> "Mutable"]
TRef(n) == Ref("topic", <<n>>)
VRef(n) == Ref("variables", <<n>>)
ARef(n) == Ref("actions", <<n>>)

RouteTargets ==
    {Target("TransitionTo", TRef(n)) : n \in TopicNames}
        \cup {Target("TopicDelegate", TRef(n)) : n \in TopicNames}

TopoBodies ==
    {Body(<<>>, SimpleInstructions, ras) :
        ras \in {<<>>} \cup {<<RA("r", t, <<>>, <<>>)>> : t \in RouteTargets}}

TopoStarts ==
    {NoStart} \cup
    {Body(<<>>, SimpleInstructions, ras) :
        ras \in {<<>>,
                 <<RA("r", Target("TransitionTo", TRef("a")), <<>>, <<>>)>>,
                 <<RA("r", Target("TopicDelegate", TRef("b")), <<>>, <<>>)>>,
                 <<RA("r", Target("TransitionTo", TRef("a")), <<>>, <<>>),
                   RA("s", Target("TransitionTo", TRef("b")), <<>>, <<>>)>>}}

TopoTopics == {TopicBlock(n, body) : n \in TopicNames, body \in TopoBodies}

TopoAsts ==
    {[variables |-> <<>>, start_agent |-> s, topics |-> ts] :
        s \in TopoStarts, ts \in UNION {[1..n -> TopoTopics] : n \in 0..MaxTopics}}

RefInstructions ==
    {SimpleInstructions,
     Dynamic(<<Text, Interpolation(ERef("variables", <<"v">>))>>),
     Dynamic(<<Conditional(ERef("actions", <<"x">>),
                           <<Interpolation(ERef("variables", <<"v">>))>>,
                           [parts |-> <<Interpolation(ERef("variables", <<"w">>))>>])>>),
     Dynamic(<<Conditional(ELit, <<Text>>, None)>>)}

RefRAs ==
    {RA("r", Target("Action", ARef("x")), <<>>, <<>>),
     RA("r", Target("Action", ARef("x")), <<ERef("variables", <<"v">>)>>, <<VRef("v")>>),
     RA("r", Escalate,
        <<ENode(<<ERef("variables", <<"v">>), ERef("actions", <<"x">>)>>)>>, <<VRef("w")>>),
     RA("r", SetVariables, <<ELit>>, <<Ref("outputs", <<"v">>)>>),
     RA("r", Target("TransitionTo", ARef("x")), <<>>, <<>>),
     RA("r", Target("TransitionTo", TRef("a")), <<>>, <<>>),
     RA("r", Target("TopicDelegate", TRef("a")), <<>>, <<>>),
     RA("r", Target("Action", ARef("x")), <<ERef("variables", <<"v", "f">>)>>, <<>>)}

RefRASeqs ==
    {<<>>} \cup {<<ra>> : ra \in RefRAs}
        \cup {<<RA("r", Target("Action", ARef("x")), <<>>, <<>>),
                RA("r", Escalate, <<>>, <<VRef("v")>>)>>}

RefBodies ==
    {Body(actions, instructions, ras) :
        actions \in {<<>>, <<"x">>}, instructions \in RefInstructions, ras \in RefRASeqs}

RefStarts ==
    {NoStart} \cup
    {Body(actions, instructions, ras) :
        actions \in {<<>>, <<"x">>},
        instructions \in {SimpleInstructions,
                          Dynamic(<<Interpolation(ERef("variables", <<"w">>))>>)},
        ras \in {<<>>,
                 <<RA("r", Target("Action", ARef("x")), <<ERef("variables", <<"v">>)>>,
                      <<VRef("v")>>)>>,
                 <<RA("r", Escalate, <<ERef("variables", <<"w">>)>>, <<VRef("w")>>)>>,
                 <<RA("r", Target("TransitionTo", TRef("a")),
                      <<ERef("variables", <<"v">>)>>, <<>>)>>}}

RefAsts ==
    {[variables |-> vs, start_agent |-> s, topics |-> ts] :
        vs \in {<<>>, <<VarDecl("v")>>},
        s \in RefStarts,
        ts \in {<<>>} \cup {<<TopicBlock("a", body)>> : body \in RefBodies}}

Asts == TopoAsts \cup RefAsts

(***************************************************************************)
(* Reference graph: from_ast and the queries as steps                      *)
(***************************************************************************)
NoGraph == [absent |-> TRUE]
NoAnswer == [query |-> "none"]

GraphInit ==
    /\ agent_file \in Asts
    /\ graph = NoGraph
    /\ answer = NoAnswer
    /\ gpc = "parsed"

GraphIdle ==
    /\ agent_file = [absent |-> TRUE]
    /\ graph = NoGraph
    /\ answer = NoAnswer
    /\ gpc = "off"

\* RefGraph::from_ast
from_ast ==
    /\ gpc = "parsed"
    /\ graph' = build(agent_file)
    /\ gpc' = IF graph'.panicked THEN "panicked" ELSE "built"
    /\ UNCHANGED <<agent_file, answer>>
    /\ UNCHANGED graphOthers

Validate ==
    /\ gpc = "built"
    /\ answer' = [query |-> "validate", result |-> validate(graph),
                  is_ok |-> is_ok(validate(graph))]
    /\ gpc' = "answered"
    /\ UNCHANGED <<agent_file, graph>>
    /\ UNCHANGED graphOthers

FindCycles ==
    /\ gpc = "built"
    /\ answer' = [query |-> "find_cycles", result |-> find_cycles(graph)]
    /\ gpc' = "answered"
    /\ UNCHANGED <<agent_file, graph>>
    /\ UNCHANGED graphOthers

FindUnreachableTopics ==
    /\ gpc = "built"
    /\ answer' = [query |-> "find_unreachable_topics",
                  result |-> find_unreachable_topics(graph)]
    /\ gpc' = "answered"
    /\ UNCHANGED <<agent_file, graph>>
    /\ UNCHANGED graphOthers

TopicExecutionOrder ==
    /\ gpc = "built"
    /\ \E r \in topic_execution_order(graph) :
          answer' = [query |-> "topic_execution_order", result |-> r]
    /\ gpc' = "answered"
    /\ UNCHANGED <<agent_file, graph>>
    /\ UNCHANGED graphOthers

Stats ==
    /\ gpc = "built"
    /\ answer' = [query |-> "stats", result |-> stats(graph),
                  total_edges |-> total_edges(stats(graph))]
    /\ gpc' = "answered"
    /\ UNCHANGED <<agent_file, graph>>
    /\ UNCHANGED graphOthers

GraphNext ==
    \/ Stats
    \/ from_ast
    \/ Validate
    \/ FindCycles
    \/ FindUnreachableTopics
    \/ TopicExecutionOrder

(***************************************************************************)
(* Parser driver: parse_with_errors over the top-level token stream        *)
(*                                                                         *)
(* A top-level token is a block keyword, "Noise" (Newline, Dedent or       *)
(* Comment), "Body" (the tokens of a well-formed block after its keyword)  *)
(* or "Junk" (any other token).  A keyword followed by anything but Body   *)
(* is a block that fails to parse.  "Connections" is the header of the     *)
(* legacy block, the tokens `connections` and `:`; what follows it is the  *)
(* block's body, if it has one.                                            *)
(***************************************************************************)
Keywords == {"Topic", "Config"}
TopTokens == Keywords \cup {"Noise", "Body", "Junk", "Connections"}
TokenStreams == UNION {[1..n -> TopTokens] : n \in 0..MaxTokens}

LexReasons == {"unterminated string", "invalid character"}
LexOutcomes ==
    {[ok |-> TRUE, tokens |-> ts] : ts \in TokenStreams}
        \cup {[ok |-> FALSE, errs |-> <<r>>] : r \in LexReasons}
        \cup {[ok |-> FALSE, errs |-> <<"invalid character", "unterminated string">>]}

\* skip_toplevel_noise from position p: the first position that is not noise.
RECURSIVE skip_toplevel_noise(_, _)
skip_toplevel_noise(ts, p) ==
    IF p <= Len(ts) /\ ts[p] = "Noise" THEN skip_toplevel_noise(ts, p + 1) ELSE p

\* legacy_connections_block: just(Connections).then_ignore(just(Colon)), with
\* the error that validate() emits; the parser succeeds, and the driver maps
\* its output to a Config block named "error" with the span 0..0.
legacy_connections_block(ts, q) ==
    [ok |-> TRUE, next |-> q + 1, block |-> [kind |-> "Config", at |-> 0],
     emitted |-> <<[stage |-> "parser", at |-> q, legacy |-> TRUE]>>]

\* choice((config, .., topic, ..)).or(legacy_connections) at position p:
\* noise, a keyword, the block.
Block(ts, p) ==
    LET q == skip_toplevel_noise(ts, p) IN
    IF q + 1 <= Len(ts) /\ ts[q] \in Keywords /\ ts[q + 1] = "Body"
    THEN [ok |-> TRUE, next |-> q + 2, block |-> [kind |-> ts[q], at |-> q],
          emitted |-> <<>>]
    ELSE IF q <= Len(ts) /\ ts[q] = "Connections"
    THEN legacy_connections_block(ts, q)
    ELSE [ok |-> FALSE, at |-> q]

\* skip_then_retry_until(any().ignored(), recovery_until), from the position
\* the failed block started at: give up when `until` matches here or no token
\* is left to skip, else skip one token and retry the block parser.
RECURSIVE skip_then_retry_until(_, _)
skip_then_retry_until(ts, p) ==
    IF p > Len(ts) \/ ts[p] \in Keywords THEN [ok |-> FALSE]
    ELSE IF Block(ts, p + 1).ok THEN Block(ts, p + 1)
    ELSE skip_then_retry_until(ts, p + 1)

\* .recover_with(..).repeated().collect(): blocks and recovered errors so far.
RECURSIVE Repeated(_, _, _, _)
Repeated(ts, p, blocks, errs) ==
    LET first == Block(ts, p)
        again == skip_then_retry_until(ts, p)
    IN  IF first.ok
        THEN Repeated(ts, first.next, Append(blocks, first.block), errs \o first.emitted)
        ELSE IF again.ok
        THEN Repeated(ts, again.next, Append(blocks, again.block),
                      Append(errs, [stage |-> "parser", at |-> first.at]) \o again.emitted)
        ELSE [blocks |-> blocks, errs |-> errs, next |-> p, failed_at |-> first.at]

\* The AgentFile the collected blocks are folded into.
RECURSIVE FileOf(_, _)
FileOf(blocks, k) ==
    IF k = 0 THEN [config |-> None, topics |-> <<>>]
    ELSE LET file == FileOf(blocks, k - 1) IN
         IF blocks[k].kind = "Config"
         THEN [file EXCEPT !.config = blocks[k]]
         ELSE [file EXCEPT !.topics = Append(@, blocks[k])]

\* agent_file_parser().parse(tokens).into_output_errors()
agent_file_parser(ts) ==
    LET r == Repeated(ts, 1, <<>>, <<>>)
        end == skip_toplevel_noise(ts, r.next)
    IN  IF end > Len(ts)
        THEN [result |-> FileOf(r.blocks, Len(r.blocks)), errors |-> r.errs]
        ELSE [result |-> None,
              errors |-> Append(r.errs, [stage |-> "parser", at |-> r.failed_at])]

LexerErrors(errs) == [k \in 1..Len(errs) |-> [stage |-> "lexer", reason |-> errs[k]]]

ParseInit ==
    /\ lexed \in LexOutcomes
    /\ ppc = "lexing"
    /\ parser_ran = FALSE
    /\ parsed = None

ParseIdle ==
    /\ lexed = None
    /\ ppc = "off"
    /\ parser_ran = FALSE
    /\ parsed = None

\* parse_with_errors, phase 1, Err arm: return (None, errors)
LexFailed_ParsesAnyway ==
    /\ ppc = "lexing"
    /\ ~lexed.ok
    /\ parsed' = [result |-> agent_file_parser(<<>>).result,
                  errors |-> LexerErrors(lexed.errs)]
    /\ parser_ran' = TRUE
    /\ ppc' = "returned"
    /\ UNCHANGED lexed
    /\ UNCHANGED parseOthers
LexFailed ==
    /\ ppc = "lexing"
    /\ ~lexed.ok
    /\ parsed' = [result |-> None, errors |-> LexerErrors(lexed.errs)]
    /\ ppc' = "returned"
    /\ UNCHANGED <<lexed, parser_ran>>
    /\ UNCHANGED parseOthers

\* parse_with_errors, phase 2
ParseTokens ==
    /\ ppc = "lexing"
    /\ lexed.ok
    /\ parsed' = agent_file_parser(lexed.tokens)
    /\ parser_ran' = TRUE
    /\ ppc' = "returned"
    /\ UNCHANGED lexed
    /\ UNCHANGED parseOthers

ParseNext == LexFailed \/ ParseTokens

\* The token stream with every legacy connections block (its header and the
\* body under it) replaced by blank lines, which leaves every other token at
\* its position.
WithoutLegacyBlocks(ts) ==
    [k \in 1..Len(ts) |->
        IF ts[k] = "Connections" \/ (k > 1 /\ ts[k] = "Body" /\ ts[k - 1] = "Connections")
        THEN "Noise" ELSE ts[k]]
HasLegacyBlock(ts) == \E k \in 1..Len(ts) : ts[k] = "Connections"

\* C29: for a source with a legacy `connections:` block, the AST that
\* parse_with_errors returns is the AST it returns for the same source with
\* that block absent, and the errors are not empty.
C29_LegacyBlockOnlyAddsError ==
    (ppc = "returned" /\ lexed.ok /\ HasLegacyBlock(lexed.tokens)) =>
        /\ parsed.errors # <<>>
        /\ parsed.result = agent_file_parser(WithoutLegacyBlocks(lexed.tokens)).result

(***************************************************************************)
(* Reference graph: what the builder and the queries guarantee             *)
(***************************************************************************)
Built == gpc \in {"built", "answered"}

\* The references of an expression and of instruction parts, in source order.
RECURSIVE ExprRefs(_)
RECURSIVE OperandRefs(_, _)
ExprRefs(expr) ==
    CASE expr.e = "Reference" -> <<expr.reference>>
      [] expr.e = "Composite" -> OperandRefs(expr.operands, 1)
      [] OTHER -> <<>>
OperandRefs(operands, k) ==
    IF k > Len(operands) THEN <<>>
    ELSE ExprRefs(operands[k]) \o OperandRefs(operands, k + 1)

RECURSIVE PartRefs(_)
RECURSIVE PartsRefs(_, _)
PartRefs(part) ==
    CASE part.p = "Interpolation" -> ExprRefs(part.expr)
      [] part.p = "Conditional" ->
            ExprRefs(part.condition) \o PartsRefs(part.then_parts, 1)
                \o (IF part.else_parts = None THEN <<>>
                    ELSE PartsRefs(part.else_parts.parts, 1))
      [] OTHER -> <<>>
PartsRefs(parts, k) ==
    IF k > Len(parts) THEN <<>> ELSE PartRefs(parts[k]) \o PartsRefs(parts, k + 1)

Site(role, container, ref) == [role |-> role, container |-> container, reference |-> ref]
SitesOf(role, container, refs) == [k \in 1..Len(refs) |-> Site(role, container, refs[k])]

\* The places of one block (start_agent or a topic) that refer to a
\* definition: reasoning-action targets, variable and action references in
\* with clauses and instructions, variables assigned by set clauses.
NamesDefinition(ref) == ref.namespace \in {"variables", "actions"}
IsVariable(ref) == ref.namespace = "variables"

RaSites(container, ra) ==
    (IF ra.target.kind \in {"Action", "TransitionTo", "TopicDelegate"}
     THEN <<Site(ra.target.kind, container, ra.target.reference)>> ELSE <<>>)
    \o SitesOf("use", container,
               SelectSeq(OperandRefs(ra.with_clauses, 1), NamesDefinition))
    \o SitesOf("use", container, SelectSeq(ra.set_clauses, IsVariable))

RECURSIVE RasSites(_, _, _)
RasSites(container, ras, k) ==
    IF k > Len(ras) THEN <<>>
    ELSE RaSites(container, ras[k]) \o RasSites(container, ras, k + 1)

BlockSites(container, block) ==
    SitesOf("use", container,
            SelectSeq(IF block.instructions.kind = "Dynamic"
                      THEN PartsRefs(block.instructions.parts, 1) ELSE <<>>,
                      NamesDefinition))
    \o RasSites(container, block.reasoning_actions, 1)

RECURSIVE TopicsSites(_, _)
TopicsSites(topics, k) ==
    IF k > Len(topics) THEN <<>>
    ELSE BlockSites(topics[k].name, topics[k]) \o TopicsSites(topics, k + 1)

AllSites(file) ==
    (IF file.start_agent = NoStart THEN <<>>
     ELSE BlockSites("start_agent", file.start_agent))
    \o TopicsSites(file.topics, 1)

\* The definitions of the file a reference can name.
VariableNames(file) == {file.variables[k].name : k \in 1..Len(file.variables)}
TopicNamesOf(file) == {file.topics[k].name : k \in 1..Len(file.topics)}
ActionNames(file, container) ==
    IF container = "start_agent"
    THEN IF file.start_agent = NoStart THEN {}
         ELSE {file.start_agent.actions[k] : k \in 1..Len(file.start_agent.actions)}
    ELSE UNION {{file.topics[t].actions[k] : k \in 1..Len(file.topics[t].actions)} :
                  t \in {j \in 1..Len(file.topics) : file.topics[j].name = container}}

Resolves(file, site) ==
    LET ref == site.reference IN
    CASE site.role \in {"TransitionTo", "TopicDelegate"} ->
            ref.namespace = "topic" /\ ref.path # <<>> /\ ref.path[1] \in TopicNamesOf(file)
      [] site.role = "Action" \/ (site.role = "use" /\ ref.namespace = "actions") ->
            /\ ref.namespace = "actions" /\ ref.path # <<>>
            /\ ref.path[1] \in ActionNames(file, site.container)
      [] OTHER ->
            Len(ref.path) = 1 /\ ref.path[1] \in VariableNames(file)

UnresolvedSites(file) ==
    LET sites == AllSites(file) IN
    {k \in 1..Len(sites) : ~Resolves(file, sites[k])}

\* C6: every reference of the file that names no definition (a
\* reasoning-action target, a with-clause or set-clause variable, a reference
\* inside instructions) adds no edge and has exactly one entry in the graph's
\* unresolved list: for every reference text, the list holds as many entries
\* as the file has unresolved places with that text, and the graph holds at
\* most one edge per place that does resolve.
C6_UnresolvedRecordedOnce ==
    Built =>
        LET sites == AllSites(agent_file)
            missing == UnresolvedSites(agent_file)
            entries == graph.unresolved_references
        IN  /\ \A k \in missing :
                Cardinality({j \in 1..Len(entries) :
                                entries[j].reference = full_path(sites[k].reference)})
                  = Cardinality({j \in missing :
                                sites[j].reference = sites[k].reference})
            /\ Len(entries) = Cardinality(missing)
            /\ Len(graph.edges) <= Len(sites) - Cardinality(missing)

EdgeTyped(g, edge) ==
    LET from == g.nodes[edge.from].type
        to == g.nodes[edge.to].type
    IN  CASE edge.kind = "Invokes" -> to = "ActionDef"
          [] edge.kind \in {"Reads", "Writes"} -> to = "Variable"
          [] edge.kind = "Routes" -> from = "StartAgent" /\ to = "Topic"
          [] edge.kind \in {"TransitionsTo", "Delegates"} ->
                from \in {"Topic", "StartAgent"} /\ to = "Topic"
          [] OTHER -> FALSE

EdgeKinds(g) == {g.edges[k].kind : k \in 1..Len(g.edges)}

\* C7: in every built graph an Invokes edge ends at an ActionDef node, a
\* Reads or Writes edge ends at a Variable node, a Routes edge goes from the
\* StartAgent node to a Topic node, and a TransitionsTo or Delegates edge
\* goes from a Topic or StartAgent node to a Topic node.
C7_EdgesAreTyped ==
    Built => \A k \in 1..Len(graph.edges) : EdgeTyped(graph, graph.edges[k])

\* A graph with Routes, Invokes, Reads and Writes edges at once.
C7_Witness ==
    /\ Built
    /\ {"Routes", "Invokes", "Reads", "Writes"} \subseteq EdgeKinds(graph)

\* C8: building never panics or fails, and every unresolved reference the
\* build recorded is among the errors validate() returns.
C8_BuildTotalUnresolvedReported ==
    /\ gpc # "panicked"
    /\ answer.query = "validate" =>
          \A k \in 1..Len(graph.unresolved_references) :
              CountOf(answer.result.errors, graph.unresolved_references[k])
                >= CountOf(graph.unresolved_references, graph.unresolved_references[k])

\* validate() answered on a graph built with two or more unresolved references.
C8_Witness ==
    /\ answer.query = "validate"
    /\ Len(graph.unresolved_references) >= 2

\* The strongly connected components of the subgraph induced by Topic nodes.
TopicIds(g) == {n \in NodeIds(g) : g.nodes[n].type = "Topic"}
TopicSuccessors(g, n) == Successors(g, n) \cap TopicIds(g)

RECURSIVE TopicClosure(_, _, _)
TopicClosure(g, seen, frontier) ==
    IF frontier \subseteq seen THEN seen
    ELSE TopicClosure(g, seen \cup frontier,
                      UNION {TopicSuccessors(g, n) : n \in frontier})

TopicReaches(g, n, m) == m \in TopicClosure(g, {}, TopicSuccessors(g, n))

TopicSccs(g) ==
    {{m \in TopicIds(g) : m = n \/ (TopicReaches(g, n, m) /\ TopicReaches(g, m, n))} :
        n \in TopicIds(g)}

\* C9: find_cycles() returns a non-empty list exactly when the subgraph
\* induced by the Topic nodes has a strongly connected component of more
\* than one node.
C9_CyclesIffTopicScc ==
    answer.query = "find_cycles" =>
        (answer.result # {} <=> \E scc \in TopicSccs(graph) : Cardinality(scc) > 1)

\* find_cycles() answered with a cycle: two topics that reach each other.
C9_Witness ==
    /\ answer.query = "find_cycles"
    /\ answer.result # {}

\* C10: with a StartAgent node, find_unreachable_topics() returns one
\* UnreachableTopic warning for each Topic node that no path from the
\* StartAgent node reaches, and nothing else.
C10_OneWarningPerUnreachableTopic ==
    (answer.query = "find_unreachable_topics" /\ graph.start_agent # 0) =>
        answer.result =
            {[error |-> "UnreachableTopic", name |-> graph.nodes[n].name,
              span |-> graph.nodes[n].span] :
                n \in TopicIds(graph) \ find_reachable_from(graph, graph.start_agent)}

\* C11: validate().is_ok() is true exactly when the graph's unresolved
\* list is empty and find_cycles() returns nothing.
C11_OkIffNoUnresolvedNoCycles ==
    answer.query = "validate" =>
        (answer.is_ok <=>
            (graph.unresolved_references = <<>> /\ find_cycles(graph) = {}))

\* validate() answered ok on a graph that still has warnings.
C11_Witness ==
    /\ answer.query = "validate"
    /\ answer.is_ok
    /\ answer.result.warnings # <<>>

Positions(order, n) == {k \in 1..Len(order) : order[k] = n}

\* C12: topic_execution_order() returns None when the graph has a cycle;
\* otherwise it returns an order that holds every Topic node exactly once,
\* nothing else, and the source of every TransitionsTo or Delegates edge
\* before the edge's target.
C12_OrderHoldsEveryTopicOnce ==
    answer.query = "topic_execution_order" =>
        IF \E n \in NodeIds(graph) : n \in ReachablePlus(graph, n)
        THEN answer.result = None
        ELSE /\ answer.result # None
             /\ \A n \in NodeIds(graph) :
                    Cardinality(Positions(answer.result.order, n))
                      = IF n \in TopicIds(graph) THEN 1 ELSE 0
             /\ \A k \in 1..Len(graph.edges) :
                    graph.edges[k].kind \in {"TransitionsTo", "Delegates"} =>
                        \A p \in Positions(answer.result.order, graph.edges[k].from),
                           q \in Positions(answer.result.order, graph.edges[k].to) : p < q

\* C17: stats() counts every edge of the graph in exactly one per-kind
\* counter, so total_edges() is the number of edges of the graph.
C17_EdgeCountersAddUp ==
    answer.query = "stats" => answer.total_edges = Len(graph.edges)

\* C27: topic_execution_order() returns an order exactly when find_cycles()
\* on the same graph returns no cycle, also when a topic transitions or
\* delegates to itself.
C27_OrderIffNoCycleReported ==
    answer.query = "topic_execution_order" =>
        (answer.result # None <=> find_cycles(graph) = {})

\* The index of the graph that holds the nodes of one type.
IndexOf(g, type) ==
    CASE type = "Topic" -> g.topics
      [] type = "Variable" -> g.variables
      [] type = "ActionDef" -> g.action_defs
      [] type = "ReasoningAction" -> g.reasoning_actions

\* C28: after a build every Topic, Variable, ActionDef and ReasoningAction
\* node is the value of exactly one entry of the index of its type, and the
\* counts stats() returns equal the sizes of the indexes, also when the
\* source defines the same name twice.
C28_IndexesMatchNodes ==
    /\ gpc \in {"built", "answered"} =>
          \A n \in NodeIds(graph) :
              graph.nodes[n].type \in {"Topic", "Variable", "ActionDef", "ReasoningAction"} =>
                  Cardinality({k \in 1..Len(IndexOf(graph, graph.nodes[n].type)) :
                                  IndexOf(graph, graph.nodes[n].type)[k].idx = n}) = 1
    /\ answer.query = "stats" =>
          /\ answer.result.topics = Len(graph.topics)
          /\ answer.result.variables = Len(graph.variables)
          /\ answer.result.action_defs = Len(graph.action_defs)
          /\ answer.result.reasoning_actions = Len(graph.reasoning_actions)

(***************************************************************************)
(* Parser driver: what parse_with_errors guarantees                        *)
(***************************************************************************)
\* A keyword that opens a well-formed block, and one that opens a block
\* that fails to parse.
WellFormedAt(ts, q) == q + 1 <= Len(ts) /\ ts[q] \in Keywords /\ ts[q + 1] = "Body"
FailsAt(ts, q) == q <= Len(ts) /\ ts[q] \in Keywords /\ ~WellFormedAt(ts, q)

\* C13: when a top-level block fails to parse, the failure is recorded as an
\* error and parsing resumes at the next block keyword: the caller gets an
\* AST that holds every well-formed top-level block after the failure (every
\* such topic, and a config if there is such a config), with the errors.
C13_BlocksAfterFailureKept ==
    (ppc = "returned" /\ lexed.ok) =>
        \A f \in 1..Len(lexed.tokens) :
            FailsAt(lexed.tokens, f) =>
                /\ parsed.errors # <<>>
                /\ parsed.result # None
                /\ \A q \in (f + 1)..Len(lexed.tokens) :
                      WellFormedAt(lexed.tokens, q) =>
                          IF lexed.tokens[q] = "Topic"
                          THEN \E k \in 1..Len(parsed.result.topics) :
                                  parsed.result.topics[k].at = q
                          ELSE parsed.result.config # None

\* C14: when lexing fails, parse_with_errors returns no AST and exactly the
\* lexer's failures as errors, and the token parser is not run.
C14_LexFailureShortCircuits ==
    (ppc = "returned" /\ ~lexed.ok) =>
        /\ parsed.result = None
        /\ ~parser_ran
        /\ Len(parsed.errors) = Len(lexed.errs)
        /\ \A k \in 1..Len(parsed.errors) :
              parsed.errors[k].stage = "lexer" /\ parsed.errors[k].reason = lexed.errs[k]

\* A source with two lexer failures, returned.
C14_Witness ==
    /\ ppc = "returned"
    /\ ~lexed.ok
    /\ Len(lexed.errs) = 2
    /\ Len(parsed.errors) = 2

(***************************************************************************)
(* Dynamic instructions (crates/parser/src/parser/instructions.rs)         *)
(*                                                                         *)
(* A token is its kind, the kind of the statement it was lexed from and    *)
(* the path of that statement in the source (its position in its block,    *)
(* under the positions of the blocks around it).  The path stands for the  *)
(* token's text and span: two tokens of one kind differ by it.             *)
(***************************************************************************)
Tok(t, of, id) == [t |-> t, of |-> of, id |-> id]

\* The statements of the block are records: [k |-> "pipe"] is `| text`,
\* "pipecont" the same with an indented continuation line, "run" is
\* `run @actions.x` (body "none", "body" for an indented `with` clause,
\* "gapbody" for a blank or comment line before that clause), and "if" is
\* `if cond:` with its then_block and its else_block (None, or the body of
\* `else:`).  `gap` says that a blank or comment line follows the header.
SeqsUpTo(S, n) == UNION {[1..m -> S] : m \in 1..n}

\* The sources checked: one `if` at the top level, a statement or none on
\* either side of it, and up to MaxBlock statements in one of its branches,
\* each a text line, a run statement or a nested `if`.
DynSources ==
    LET PipeLine == [k |-> "pipe"]
        RunStmt(body) == [k |-> "run", body |-> body]
        IfStmt(gap, then_block, else_block) ==
            [k |-> "if", gap |-> gap, then_block |-> then_block,
             else_block |-> else_block]
        ElseBlock(gap, body) == [gap |-> gap, body |-> body]
        InnerIfs ==
            {IfStmt(g, <<PipeLine>>, None) : g \in BOOLEAN}
                \cup {IfStmt(FALSE, <<PipeLine>>, ElseBlock(eg, <<PipeLine>>)) :
                        eg \in BOOLEAN}
        Branches ==
            SeqsUpTo({PipeLine, RunStmt("body"), RunStmt("gapbody")} \cup InnerIfs,
                     MaxBlock)
        OuterIfs ==
            {IfStmt(FALSE, b, None) : b \in Branches}
                \cup {IfStmt(FALSE, <<PipeLine>>, ElseBlock(FALSE, b)) : b \in Branches}
        Before == {<<>>, <<[k |-> "pipecont"]>>, <<RunStmt("none")>>, <<RunStmt("body")>>}
        After == {<<>>, <<PipeLine>>}
    IN  {pre \o <<o>> \o post : pre \in Before, o \in OuterIfs, post \in After}

\* lex_with_indentation on the statements: after the Newline of a line come
\* the Newlines of the blank lines, then the Indent or the Dedents of the
\* next line that is not blank.
RECURSIVE RenderBlock(_, _, _)
RenderStmt(s, p) ==
    LET T(t) == Tok(t, s.k, p)
        Gap(g) == IF g THEN <<T("Newline")>> ELSE <<>>
    IN  CASE s.k = "pipe" -> <<T("Pipe"), T("Word"), T("Newline")>>
          [] s.k = "pipecont" ->
                <<T("Pipe"), T("Word"), T("Newline"),
                  T("Indent"), T("Word"), T("Newline"), T("Dedent")>>
          [] s.k = "run" ->
                <<T("Run"), T("Word"), T("Newline")>>
                    \o Gap(s.body = "gapbody")
                    \o (IF s.body = "none" THEN <<>>
                        ELSE <<T("Indent"), T("With"), T("Word"), T("Newline"),
                               T("Dedent")>>)
          [] s.k = "if" ->
                <<T("If"), T("Word"), T("Colon"), T("Newline")>>
                    \o Gap(s.gap)
                    \o <<T("Indent")>>
                    \o RenderBlock(s.then_block, p \o <<1>>, 1)
                    \o <<T("Dedent")>>
                    \o (IF s.else_block = None THEN <<>>
                        ELSE <<T("Else"), T("Colon"), T("Newline")>>
                                \o Gap(s.else_block.gap)
                                \o <<T("Indent")>>
                                \o RenderBlock(s.else_block.body, p \o <<2>>, 1)
                                \o <<T("Dedent")>>)

\* The tokens between the Indent and the Dedent of the instructions block.
RenderBlock(stmts, p, k) ==
    IF k > Len(stmts) THEN <<>>
    ELSE RenderStmt(stmts[k], p \o <<k>>) \o RenderBlock(stmts, p, k + 1)

\* `i < tokens.len() && matches!(&tokens[i].0, Token::X)`
IsTok(ts, j, t) == j <= Len(ts) /\ ts[j].t = t

\* `while i < tokens.len() && !matches!(&tokens[i].0, Token::X) { i += 1 }`
RECURSIVE FindTok(_, _, _)
FindTok(ts, j, t) ==
    IF j > Len(ts) \/ ts[j].t = t THEN j ELSE FindTok(ts, j + 1, t)

\* `if i < tokens.len() && matches!(&tokens[i].0, Token::X) { i += 1 }`
SkipIf(ts, j, t) == IF IsTok(ts, j, t) THEN j + 1 ELSE j

\* Where a `while i < tokens.len() && depth > 0` loop stops, and the depth
\* it stops with.
RECURSIVE BlockEnd(_, _, _)
BlockEnd(ts, j, depth) ==
    IF j > Len(ts) \/ depth = 0 THEN [next |-> j, depth |-> depth]
    ELSE BlockEnd(ts, j + 1,
                  CASE ts[j].t = "Indent" -> depth + 1
                    [] ts[j].t = "Dedent" -> depth - 1
                    [] OTHER -> depth)

skip_run_block(ts, start) ==
    LET a == SkipIf(ts, FindTok(ts, start, "Newline"), "Newline")
    IN  IF IsTok(ts, a, "Indent") THEN BlockEnd(ts, a + 1, 1).next ELSE a

skip_if_block(ts, start) ==
    LET a == SkipIf(ts, SkipIf(ts, FindTok(ts, start, "Colon"), "Colon"), "Newline")
        b == IF IsTok(ts, a, "Indent") THEN BlockEnd(ts, a + 1, 1).next ELSE a
    IN  IF IsTok(ts, b, "Else")
        THEN LET c == SkipIf(ts, SkipIf(ts, b + 1, "Colon"), "Newline")
             IN  IF IsTok(ts, c, "Indent") THEN BlockEnd(ts, c + 1, 1).next ELSE c
        ELSE b

\* Every token the loop passes is pushed but the Dedent that takes the depth
\* to 0.
collect_block_tokens(ts, j) ==
    LET e == BlockEnd(ts, j, 1)
    IN  [toks |-> SubSeq(ts, j, IF e.depth = 0 THEN e.next - 2 ELSE e.next - 1),
         next |-> e.next]

\* InstructionPart::Text: the text is the tokens it was put together from.
TextPart(text) == [p |-> "Text", text |-> text]

\* token_to_text is empty for Comment, Indent and Dedent; no token of the
\* lines here is `{!`, so the line is one Text part, or none when empty.
parse_text_line_with_interpolations(line) ==
    LET text == SelectSeq(line, LAMBDA t : t.t \notin {"Indent", "Dedent"})
    IN  IF text = <<>> THEN <<>> ELSE <<TextPart(text)>>

\* The Token::Pipe arm, from the Pipe at j.  The continuation is every
\* token of the indented block after the line but the Indents and Dedents,
\* and a '\n' is pushed on the text before it.
PipeArm(ts, j) ==
    LET line_start == j + 1
        line_end == FindTok(ts, line_start, "Newline")
        a == SkipIf(ts, line_end, "Newline")
        e == IF IsTok(ts, a, "Indent") THEN BlockEnd(ts, a + 1, 1)
             ELSE [next |-> a, depth |-> 0]
        continuation_tokens ==
            IF IsTok(ts, a, "Indent")
            THEN SelectSeq(SubSeq(ts, a + 1, e.next - 1),
                           LAMBDA t : t.t \notin {"Indent", "Dedent"})
            ELSE <<>>
        line_parts ==
            parse_text_line_with_interpolations(SubSeq(ts, line_start, line_end - 1))
        pushed ==
            IF line_parts = <<>> THEN line_parts
            ELSE [line_parts EXCEPT
                    ![Len(line_parts)] =
                        TextPart(line_parts[Len(line_parts)].text
                                    \o <<Tok("Newline", "text", <<>>)>>)]
    IN  [parts |-> IF continuation_tokens = <<>> THEN line_parts
                   ELSE pushed
                            \o parse_text_line_with_interpolations(continuation_tokens),
         next |-> e.next]

\* A Token::Run arm that turns the statement into a text part.
RunArm_EmitsText(ts, j) ==
    [parts |-> <<TextPart(<<ts[j]>>)>>, next |-> skip_run_block(ts, j)]

\* The Token::Run arm.
RunArm(ts, j) == [parts |-> <<>>, next |-> skip_run_block(ts, j)]

RECURSIVE parse_instruction_parts_with_depth(_, _)
RECURSIVE PartsFrom(_, _, _)

\* A parse_if_block that hands back the position it was given.
parse_if_block_Stays(ts, start) == [part |-> None, next |-> start]

\* build_condition_expr is kept as the tokens of the condition.
parse_if_block(ts, start) ==
    LET condition_start == start + 1
        condition_end == FindTok(ts, condition_start, "Colon")
        condition == SubSeq(ts, condition_start, condition_end - 1)
        a == SkipIf(ts, SkipIf(ts, condition_end, "Colon"), "Newline")
    IN  IF ~IsTok(ts, a, "Indent") THEN [part |-> None, next |-> a]
        ELSE LET then_tokens == collect_block_tokens(ts, a + 1)
                 then_parts == parse_instruction_parts_with_depth(then_tokens.toks, 1)
                 b == then_tokens.next
                 c == SkipIf(ts, SkipIf(ts, b + 1, "Colon"), "Newline")
                 else_tokens == collect_block_tokens(ts, c + 1)
             IN  IF IsTok(ts, b, "Else")
                 THEN IF IsTok(ts, c, "Indent")
                      THEN [part |-> Conditional(condition, then_parts,
                                        [parts |->
                                            parse_instruction_parts_with_depth(
                                                else_tokens.toks, 1)]),
                            next |-> else_tokens.next]
                      ELSE [part |-> Conditional(condition, then_parts, None),
                            next |-> c]
                 ELSE [part |-> Conditional(condition, then_parts, None), next |-> b]

\* The loop of parse_instruction_parts_with_depth, from token j on.
PartsFrom(ts, j, if_depth) ==
    IF j > Len(ts) THEN <<>>
    ELSE CASE ts[j].t = "Pipe" ->
                LET r == PipeArm(ts, j)
                IN  r.parts \o PartsFrom(ts, r.next, if_depth)
           [] ts[j].t = "If" ->
                IF if_depth > 0
                THEN PartsFrom(ts, skip_if_block(ts, j), if_depth)
                ELSE LET r == parse_if_block(ts, j)
                     IN  (IF r.part = None THEN <<>> ELSE <<r.part>>)
                            \o PartsFrom(ts, r.next, if_depth)
           [] ts[j].t = "Run" ->
                LET r == RunArm(ts, j)
                IN  r.parts \o PartsFrom(ts, r.next, if_depth)
           [] OTHER -> PartsFrom(ts, j + 1, if_depth)

parse_instruction_parts_with_depth(ts, if_depth) == PartsFrom(ts, 1, if_depth)

parse_instruction_parts(ts) == parse_instruction_parts_with_depth(ts, 0)

DynInit ==
    /\ dyn_source \in DynSources
    /\ dyn_tokens = None
    /\ dyn_parts = None

DynIdle ==
    /\ dyn_source = <<>>
    /\ dyn_tokens = None
    /\ dyn_parts = None

\* dynamic_instructions: the tokens between `->` and the closing Dedent
collect_multiline_tokens ==
    /\ dyn_source # <<>>
    /\ dyn_tokens = None
    /\ dyn_tokens' = [toks |-> RenderBlock(dyn_source, <<>>, 1)]
    /\ UNCHANGED <<dyn_source, dyn_parts>>
    /\ UNCHANGED dynOthers

\* dynamic_instructions: Instructions::Dynamic(parse_instruction_parts(&tokens))
dynamic_instructions ==
    /\ dyn_tokens # None
    /\ dyn_parts = None
    /\ dyn_parts' = Dynamic(parse_instruction_parts(dyn_tokens.toks))
    /\ UNCHANGED <<dyn_source, dyn_tokens>>
    /\ UNCHANGED dynOthers

DynNext == collect_multiline_tokens \/ dynamic_instructions

(***************************************************************************)
(* Claims on dynamic instructions                                          *)
(***************************************************************************)
NoConditional(parts) == \A k \in 1..Len(parts) : parts[k].p # "Conditional"

\* What a branch keeps when every `if` in it is dropped whole: the parts of
\* its other statements, in order.
RECURSIVE KeptParts(_, _, _)
KeptParts(stmts, p, k) ==
    IF k > Len(stmts) THEN <<>>
    ELSE (IF stmts[k].k = "if" THEN <<>>
          ELSE parse_instruction_parts_with_depth(RenderStmt(stmts[k], p \o <<k>>), 1))
            \o KeptParts(stmts, p, k + 1)

\* The Conditional c is the outer `if` s, the k-th statement of the source,
\* with every nested `if` of its branches dropped together with its body and
\* its else block.
BranchesKept(c, s, k) ==
    /\ c.p = "Conditional"
    /\ c.condition = <<Tok("Word", "if", <<k>>)>>
    /\ NoConditional(c.then_parts)
    /\ c.then_parts = KeptParts(s.then_block, <<k, 1>>, 1)
    /\ IF s.else_block = None THEN c.else_parts = None
       ELSE /\ c.else_parts # None
            /\ NoConditional(c.else_parts.parts)
            /\ c.else_parts.parts = KeptParts(s.else_block.body, <<k, 2>>, 1)

\* C18: in the parts of Dynamic instructions, the then-parts and else-parts
\* of a Conditional hold no Conditional: an `if` inside a branch of another
\* `if` is dropped with its whole body and its optional else block, and the
\* parts before and after it in that branch are kept.
C18_NestedIfDroppedWhole ==
    dyn_parts # None =>
        \A k \in 1..Len(dyn_source) :
            dyn_source[k].k = "if" =>
                \E j \in 1..Len(dyn_parts.parts) :
                    BranchesKept(dyn_parts.parts[j], dyn_source[k], k)

\* The tokens with every run statement, its body included, taken out.
WithoutRuns(ts) == SelectSeq(ts, LAMBDA t : t.of # "run")

DeclKinds == {"Mutable", "Linked"}
DeclTypes == {"String", "Boolean"}
DeclExprs == {"StringLit", "None"}

\* The declarations checked: `name: kind type` (an Ident where the kind
\* should be, included), then nothing, `= expr` or `=` alone, then no block
\* or an indented block of up to MaxEntries description and source lines.
DeclInputs ==
    LET Heads ==
            {<<"Ident", "Colon", k, ty>> :
                k \in DeclKinds \cup {"Ident"}, ty \in DeclTypes}
        Defaults == {<<>>, <<"Assign">>} \cup {<<"Assign", e>> : e \in DeclExprs}
        EntryLines ==
            {<<"Description", "Colon", "StringLit", "Newline">>,
             <<"Source", "Colon", "Ref", "Newline">>}
        RECURSIVE Flatten(_)
        Flatten(ss) == IF ss = <<>> THEN <<>> ELSE Head(ss) \o Flatten(Tail(ss))
        Blocks ==
            {<<>>} \cup
            {<<"Newline", "Indent">> \o Flatten(ls) \o <<"Dedent">> :
                ls \in SeqsUpTo(EntryLines, MaxEntries)}
    IN  {h \o d \o b : h \in Heads, d \in Defaults, b \in Blocks}

At(ts, j) == IF j <= Len(ts) THEN ts[j] ELSE "EOF"

\* skip_block_noise: Newline or Comment, repeated
RECURSIVE skip_block_noise(_, _)
skip_block_noise(ts, j) ==
    IF At(ts, j) \in {"Newline", "Comment"} THEN skip_block_noise(ts, j + 1) ELSE j

var_decl_entry(ts, j) ==
    IF At(ts, j) = "Description" /\ At(ts, j + 1) = "Colon" /\ At(ts, j + 2) = "StringLit"
    THEN [ok |-> TRUE, entry |-> "Description", next |-> j + 3]
    ELSE IF At(ts, j) = "Source" /\ At(ts, j + 1) = "Colon" /\ At(ts, j + 2) = "Ref"
    THEN [ok |-> TRUE, entry |-> "Source", next |-> j + 3]
    ELSE [ok |-> FALSE]

\* var_decl_entry().separated_by(skip_block_noise()).allow_trailing()
RECURSIVE DeclEntries(_, _)
DeclEntries(ts, j) ==
    LET e == var_decl_entry(ts, j)
    IN  IF ~e.ok THEN [entries |-> <<>>, next |-> j]
        ELSE LET rest == DeclEntries(ts, skip_block_noise(ts, e.next))
             IN  IF rest.entries = <<>> THEN [entries |-> <<e.entry>>, next |-> e.next]
                 ELSE [entries |-> <<e.entry>> \o rest.entries, next |-> rest.next]

\* variable_decl on the tokens of one declaration: the VariableDecl and the
\* errors emitted by validate, or a failure when the tokens are not those of
\* a declaration.  The default is `just(Token::Assign).ignore_then(expr())
\* .or_not()`; when the optional nested block does not parse, or_not leaves
\* the position where it was and the entries are empty.
variable_decl(ts) ==
    LET has_default == At(ts, 5) = "Assign" /\ At(ts, 6) \in DeclExprs
        default == IF has_default THEN [expr |-> At(ts, 6)] ELSE None
        j == IF has_default THEN 7 ELSE 5
        a == skip_block_noise(ts, j + 1)
        es == DeclEntries(ts, a + 1)
        z == skip_block_noise(ts, es.next)
        has_block == At(ts, j) = "Newline" /\ At(ts, a) = "Indent" /\ At(ts, z) = "Dedent"
        entries == IF has_block THEN es.entries ELSE <<>>
        next == IF has_block THEN z + 1 ELSE j
    IN  IF /\ At(ts, 1) = "Ident"
           /\ At(ts, 2) = "Colon"
           /\ At(ts, 3) \in DeclKinds
           /\ At(ts, 4) \in DeclTypes
           /\ next = Len(ts) + 1
        THEN [ok |-> TRUE,
              decl |-> [kind |-> At(ts, 3),
                        ty |-> At(ts, 4),
                        default |-> default,
                        description |->
                            \E k \in 1..Len(entries) : entries[k] = "Description",
                        source |-> \E k \in 1..Len(entries) : entries[k] = "Source"],
              errors |-> IF has_default /\ At(ts, 6) = "None" /\ At(ts, 4) # "Boolean"
                         THEN {"'= None' is only valid for boolean types"}
                         ELSE {}]
        ELSE [ok |-> FALSE]

DeclInit ==
    /\ decl_tokens \in DeclInputs
    /\ decl = None

DeclIdle ==
    /\ decl_tokens = <<>>
    /\ decl = None

\* variables_block runs variable_decl on the tokens of the declaration.
VariableDecl ==
    /\ decl_tokens # <<>>
    /\ decl = None
    /\ decl' = variable_decl(decl_tokens)
    /\ UNCHANGED decl_tokens
    /\ UNCHANGED declOthers

DeclNext == VariableDecl

\* C20: every VariableDecl in an AST returned by the parser has a default
\* expression only if its kind is Mutable.
C20_DefaultOnlyWhenMutable ==
    (decl # None /\ decl.ok /\ decl.decl.default # None) => decl.decl.kind = "Mutable"

(***************************************************************************)
(* Dependency extraction (crates/graph/src/dependencies.rs)                *)
(*                                                                         *)
(* A target string is the sequence of its characters.                      *)
(***************************************************************************)
Chars(scheme) ==
    CASE scheme = "flow" -> <<"f", "l", "o", "w">>
      [] scheme = "apex" -> <<"a", "p", "e", "x">>
      [] scheme = "prompt" -> <<"p", "r", "o", "m", "p", "t">>
      [] scheme = "service" -> <<"s", "e", "r", "v", "i", "c", "e">>
      [] scheme = "create" -> <<"c", "r", "e", "a", "t", "e">>
      [] scheme = "read" -> <<"r", "e", "a", "d">>
      [] scheme = "update" -> <<"u", "p", "d", "a", "t", "e">>
      [] scheme = "delete" -> <<"d", "e", "l", "e", "t", "e">>
      [] scheme = "query" -> <<"q", "u", "e", "r", "y">>
      [] scheme = "http" -> <<"h", "t", "t", "p">>
      [] scheme = "Flow" -> <<"F", "l", "o", "w">>

Prefix(scheme) == Chars(scheme) \o <<":", "/", "/">>

RecordOps == <<"create", "read", "update", "delete", "query">>

\* The targets checked: a known scheme, an unknown one, one in the wrong
\* case, one with a slash missing or none, before up to MaxRest characters.
Targets ==
    LET Heads ==
            {Prefix(s) : s \in {"flow", "apex", "prompt", "service", "create", "read",
                                "update", "delete", "query", "http", "Flow"}}
                \cup {<<>>, Chars("flow") \o <<":", "/">>}
        Rests == UNION {[1..n -> {"A", "."}] : n \in 0..MaxRest}
    IN  {h \o r : h \in Heads, r \in Rests}

\* str::strip_prefix: Some(rest) or None
strip_prefix(target, prefix) ==
    IF Len(target) >= Len(prefix) /\ SubSeq(target, 1, Len(prefix)) = prefix
    THEN [rest |-> SubSeq(target, Len(prefix) + 1, Len(target))]
    ELSE None

\* str::split_once('.'): the text before and after the first '.', or None
split_once(text) ==
    IF \E k \in 1..Len(text) : text[k] = "."
    THEN LET k == CHOOSE k \in 1..Len(text) :
                    text[k] = "." /\ \A j \in 1..(k - 1) : text[j] # "."
         IN  [before |-> SubSeq(text, 1, k - 1), after |-> SubSeq(text, k + 1, Len(text))]
    ELSE None

\* The loop over the record operations, from the k-th on.
RECURSIVE RecordTarget(_, _)
RecordTarget(target, k) ==
    IF k > Len(RecordOps) THEN [variant |-> "Custom", name |-> target]
    ELSE LET rest == strip_prefix(target, Prefix(RecordOps[k]))
         IN  IF rest = None THEN RecordTarget(target, k + 1)
             ELSE IF split_once(rest.rest) # None
             THEN [variant |-> "Field",
                   object |-> split_once(rest.rest).before,
                   field |-> split_once(rest.rest).after]
             ELSE [variant |-> "SObject", name |-> rest.rest]

\* A parse_action_target that reports a method only when its name is not
\* empty.
parse_action_target_NamedMethod(target) ==
    LET apex == strip_prefix(target, Prefix("apex"))
    IN  IF apex # None
        THEN IF split_once(apex.rest) # None /\ split_once(apex.rest).after # <<>>
             THEN [variant |-> "ApexMethod",
                   class |-> split_once(apex.rest).before,
                   method |-> split_once(apex.rest).after]
             ELSE [variant |-> "ApexClass", name |-> apex.rest]
        ELSE RecordTarget(target, 1)

parse_action_target(target) ==
    LET flow == strip_prefix(target, Prefix("flow"))
        apex == strip_prefix(target, Prefix("apex"))
        prompt == strip_prefix(target, Prefix("prompt"))
        service == strip_prefix(target, Prefix("service"))
    IN  IF flow # None THEN [variant |-> "Flow", name |-> flow.rest]
        ELSE IF apex # None
        THEN IF split_once(apex.rest) # None
             THEN [variant |-> "ApexMethod",
                   class |-> split_once(apex.rest).before,
                   method |-> split_once(apex.rest).after]
             ELSE [variant |-> "ApexClass", name |-> apex.rest]
        ELSE IF prompt # None THEN [variant |-> "PromptTemplate", name |-> prompt.rest]
        ELSE IF service # None THEN [variant |-> "ExternalService", name |-> service.rest]
        ELSE RecordTarget(target, 1)

\* DependencyType::category
category(dep_type) ==
    CASE dep_type.variant = "SObject" -> "sobject"
      [] dep_type.variant = "Field" -> "field"
      [] dep_type.variant = "Flow" -> "flow"
      [] dep_type.variant = "ApexClass" -> "apex_class"
      [] dep_type.variant = "ApexMethod" -> "apex_method"
      [] dep_type.variant = "KnowledgeBase" -> "knowledge"
      [] dep_type.variant = "Connection" -> "connection"
      [] dep_type.variant = "PromptTemplate" -> "prompt_template"
      [] dep_type.variant = "ExternalService" -> "external_service"
      [] dep_type.variant = "Custom" -> "custom"

DepInit ==
    /\ dep_targets \in [1..2 -> Targets]
    /\ all_dependencies = <<>>

DepIdle ==
    /\ dep_targets = <<>>
    /\ all_dependencies = <<>>

\* extract_from_action on the next action definition with a target
extract_from_action ==
    /\ Len(all_dependencies) < Len(dep_targets)
    /\ all_dependencies' =
            Append(all_dependencies,
                   [dep_type |->
                        parse_action_target(dep_targets[Len(all_dependencies) + 1])])
    /\ UNCHANGED dep_targets
    /\ UNCHANGED depOthers

DepNext == extract_from_action

(***************************************************************************)
(* Claims on dependency extraction                                         *)
(***************************************************************************)
\* The scheme prefix of a target: its text up to the first "://", that
\* included, or the empty text when it has none.
SchemeOf(target) ==
    LET Ends == {k \in 3..Len(target) : SubSeq(target, k - 2, k) = <<":", "/", "/">>}
    IN  IF Ends = {} THEN <<>>
        ELSE SubSeq(target, 1, CHOOSE k \in Ends : \A j \in Ends : k <= j)

HasDot(target) ==
    \E k \in (Len(SchemeOf(target)) + 1)..Len(target) : target[k] = "."

BothClassified == Len(all_dependencies) = 2

CategoryAt(k) == category(all_dependencies[k].dep_type)

\* C21 as stated: every target gets one dependency type, and two targets
\* with the same scheme prefix get the same category.
C21_SchemeAloneDecides ==
    BothClassified =>
        (SchemeOf(dep_targets[1]) = SchemeOf(dep_targets[2])
            => CategoryAt(1) = CategoryAt(2))

\* C21, amended: every target gets one dependency type whose category is
\* one of the ten, and two targets with the same scheme prefix that agree
\* on having a '.' after it get the same category.
C21_SchemeAndDotDecide ==
    /\ \A k \in 1..Len(all_dependencies) :
            CategoryAt(k) \in {"sobject", "field", "flow", "apex_class", "apex_method",
                               "knowledge", "connection", "prompt_template",
                               "external_service", "custom"}
    /\ BothClassified =>
            ((/\ SchemeOf(dep_targets[1]) = SchemeOf(dep_targets[2])
              /\ HasDot(dep_targets[1]) = HasDot(dep_targets[2]))
                => CategoryAt(1) = CategoryAt(2))

\* Two different apex targets, both naming a method.
C21_Witness ==
    /\ BothClassified
    /\ dep_targets[1] # dep_targets[2]
    /\ SchemeOf(dep_targets[1]) = Prefix("apex")
    /\ SchemeOf(dep_targets[2]) = Prefix("apex")
    /\ CategoryAt(1) = "apex_method"
    /\ CategoryAt(2) = "apex_method"

(***************************************************************************)
(* The token walk of parse_instruction_parts_with_depth, one iteration of  *)
(* its while loop per step, over any sequence of tokens                    *)
(***************************************************************************)
WalkKinds == {"Pipe", "If", "Else", "Colon", "Newline", "Indent", "Dedent", "Run", "Word"}
WalkTokens == {Tok(k, "walk", <<>>) : k \in WalkKinds}

WalkInit ==
    /\ walk_tokens \in SeqsUpTo(WalkTokens, MaxWalk)
    /\ walk_if_depth \in {0, 1}
    /\ walk_i = 1
    /\ walk_parts = <<>>
    /\ walk_pc = "loop"

WalkIdle ==
    /\ walk_tokens = <<>>
    /\ walk_if_depth = 0
    /\ walk_i = 1
    /\ walk_parts = <<>>
    /\ walk_pc = "off"

\* `while i < tokens.len()` holds and tokens[i] is of kind t
WalkAt(kinds) ==
    /\ walk_pc = "loop"
    /\ walk_i <= Len(walk_tokens)
    /\ walk_tokens[walk_i].t \in kinds

WalkTo(next, pushed) ==
    /\ walk_i' = next
    /\ walk_parts' = walk_parts \o pushed
    /\ UNCHANGED <<walk_tokens, walk_if_depth, walk_pc>>
    /\ UNCHANGED walkOthers

\* Token::Pipe => text line with its continuation
WalkPipe ==
    /\ WalkAt({"Pipe"})
    /\ WalkTo(PipeArm(walk_tokens, walk_i).next, PipeArm(walk_tokens, walk_i).parts)

\* Token::If with if_depth = 0: parse_if_block
WalkIf ==
    /\ WalkAt({"If"})
    /\ walk_if_depth = 0
    /\ LET r == parse_if_block(walk_tokens, walk_i)
       IN  WalkTo(r.next, IF r.part = None THEN <<>> ELSE <<r.part>>)

\* Token::If with if_depth > 0: skip_if_block
WalkNestedIf ==
    /\ WalkAt({"If"})
    /\ walk_if_depth > 0
    /\ WalkTo(skip_if_block(walk_tokens, walk_i), <<>>)

\* Token::Run => skip_run_block
WalkRun ==
    /\ WalkAt({"Run"})
    /\ WalkTo(RunArm(walk_tokens, walk_i).next, RunArm(walk_tokens, walk_i).parts)

\* Comment, Newline and every other token: i += 1
WalkOther ==
    /\ WalkAt(WalkKinds \ {"Pipe", "If", "Run"})
    /\ WalkTo(walk_i + 1, <<>>)

\* The loop condition fails: return parts.
WalkReturn ==
    /\ walk_pc = "loop"
    /\ walk_i > Len(walk_tokens)
    /\ walk_pc' = "returned"
    /\ UNCHANGED <<walk_tokens, walk_if_depth, walk_i, walk_parts>>
    /\ UNCHANGED walkOthers

WalkNext == WalkPipe \/ WalkIf \/ WalkNestedIf \/ WalkRun \/ WalkOther \/ WalkReturn

\* C30: for every token sequence, every step of the walk (text line, if
\* block, skipped nested if, skipped run statement, any other token) moves
\* the position strictly forward and not past the end of the tokens, and the
\* walk returns.
C30_WalkAdvancesAndReturns ==
    /\ [][walk_i' # walk_i =>
            (walk_i < walk_i' /\ walk_i' <= Len(walk_tokens) + 1)]_vars
    /\ [][walk_pc = "loop" /\ walk_pc' = "loop" => walk_i' # walk_i]_vars
    /\ <>(walk_pc = "returned")

\* A returned walk over `if` with an indented branch that holds a nested
\* `if`: one Conditional was pushed.
C30_Witness ==
    /\ walk_pc = "returned"
    /\ walk_if_depth = 0
    /\ Len(walk_tokens) = MaxWalk
    /\ walk_tokens[1].t = "If"
    /\ walk_tokens[2].t = "Colon"
    /\ walk_tokens[3].t = "Indent"
    /\ walk_tokens[4].t = "If"
    /\ Len(walk_parts) = 1

(***************************************************************************)
(* Specifications                                                          *)
(***************************************************************************)
InitLex ==
    LexInit /\ LspInit /\ GraphIdle /\ ParseIdle /\ DynIdle /\ DeclIdle /\ DepIdle /\ WalkIdle
SpecLex == InitLex /\ [][LexNext]_vars

InitLsp ==
    LspInit /\ LexIdle /\ GraphIdle /\ ParseIdle /\ DynIdle /\ DeclIdle /\ DepIdle /\ WalkIdle
SpecLsp == InitLsp /\ [][LspNext]_vars

InitGraph ==
    GraphInit /\ LexIdle /\ LspInit /\ ParseIdle /\ DynIdle /\ DeclIdle /\ DepIdle /\ WalkIdle
SpecGraph == InitGraph /\ [][GraphNext]_vars

InitParse ==
    ParseInit /\ LexIdle /\ LspInit /\ GraphIdle /\ DynIdle /\ DeclIdle /\ DepIdle /\ WalkIdle
SpecParse == InitParse /\ [][ParseNext]_vars

InitDyn ==
    DynInit /\ LexIdle /\ LspInit /\ GraphIdle /\ ParseIdle /\ DeclIdle /\ DepIdle /\ WalkIdle
SpecDyn == InitDyn /\ [][DynNext]_vars

InitDecl ==
    DeclInit /\ LexIdle /\ LspInit /\ GraphIdle /\ ParseIdle /\ DynIdle /\ DepIdle /\ WalkIdle
SpecDecl == InitDecl /\ [][DeclNext]_vars

InitDep ==
    DepInit /\ LexIdle /\ LspInit /\ GraphIdle /\ ParseIdle /\ DynIdle /\ DeclIdle /\ WalkIdle
SpecDep == InitDep /\ [][DepNext]_vars

InitWalk ==
    WalkInit /\ LexIdle /\ LspInit /\ GraphIdle /\ ParseIdle /\ DynIdle /\ DeclIdle /\ DepIdle
\* The walk is one sequential loop: while it can take a step it takes one.
SpecWalk == InitWalk /\ [][WalkNext]_vars /\ WF_vars(WalkNext)

====
